---- MODULE Spec2Model ----
(***************************************************************************)
(* TR-300 machine report: the collection pipeline of                       *)
(* SystemInfo::collect_with_mode (src/src/collectors/mod.rs), the          *)
(* collectors it runs, the disk aggregation and the process boundary in    *)
(* main.rs.                                                                *)
(*                                                                         *)
(* Byte counts are natural numbers far below 2^64, so the u64 additions of *)
(* aggregate_disk_usage do not wrap.  A percentage (an f64 in the source)  *)
(* is kept as the exact quotient num/den; only its comparisons with 0 and  *)
(* 100 are used.  Thread creation by Scope::spawn is taken to succeed.     *)
(***************************************************************************)
EXTENDS Integers, Sequences, FiniteSets, TLC

VARIABLES mode, env, pc, spawned, th, starts, joined, got, closurePanic,
          result, snapshot, divs, rendered, exitCode, events, out

vars == <<mode, env, pc, spawned, th, starts, joined, got, closurePanic,
          result, snapshot, divs, rendered, exitCode, events, out>>

\* ------------------------------------------------------------------ bounds

\* At most this many collectors fail (return Err or panic) in one run.
MaxFaults == 2

\* At most this many disks are reported by the system.
MaxDisks == 2

\* At most this many entries (lines, addresses) in the output of one probe.
MaxEntries == 3

\* The widest bar rendered.
MaxWidth == 8

\* The longest text given to the table renderer.
MaxTextLen == 52

\* ------------------------------------------------------------- vocabulary

\* CollectMode
Modes == {"Full", "Fast"}

\* The seven collectors, in the order collect_with_mode spawns and joins them.
Order == <<"os", "cpu", "memory", "disk", "network", "session", "platform">>

Collectors == {Order[i] : i \in 1..Len(Order)}

\* The collectors whose result is a Result<T> and goes through `?`, in the
\* order of the `?` lines.
TryOrder == <<"os", "cpu", "memory", "disk", "network", "session">>

\* Mount points are strings, kept as sequences of characters so that
\* starts_with is computed.
Root == <<"/">>

DataMount == <<"/", "d", "a", "t", "a">>

CDrive == <<"C", ":", "\\">>

UsbMount == <<"/", "m", "n", "t", "/", "u", "s", "b">>

MountPoints == {Root, DataMount, UsbMount, CDrive}

None == "None"

BareMetal == "Bare Metal"

\* ----------------------------------------------------------- pure helpers

\* str::starts_with
StartsWith(s, p) ==
    /\ Len(s) >= Len(p)
    /\ SubSeq(s, 1, Len(p)) = p

\* u64::saturating_sub
saturating_sub(a, b) == IF a >= b THEN a - b ELSE 0

\* disk::collect: one DiskInfo per disk of the system with a non-zero total,
\* in the system's order; used = total.saturating_sub(available).
RECURSIVE disk_collect(_)
disk_collect(raw) ==
    IF raw = <<>> THEN <<>>
    ELSE LET d == Head(raw)
             rest == disk_collect(Tail(raw))
         IN  IF d.total_space = 0 THEN rest
             ELSE <<[mount_point |-> d.mount_point,
                     total_bytes |-> d.total_space,
                     available_bytes |-> d.available_space,
                     used_bytes |-> saturating_sub(d.total_space, d.available_space),
                     is_removable |-> d.is_removable]>> \o rest

\* memory::collect: the system's figures, passed through unchanged.
memory_collect(m) ==
    [total_bytes |-> m.total_memory, used_bytes |-> m.used_memory]

\* A variant of IsPrimary that knows the filesystem root only.
IsPrimaryBroken(d) == d.mount_point = Root

\* The test of the first loop of aggregate_disk_usage.

IsPrimary(d) ==
    \/ d.mount_point = Root
    \/ d.mount_point = CDrive
    \/ StartsWith(d.mount_point, <<"C", ":">>)

\* A variant of SumNonRemovable that sums over every disk.
RECURSIVE SumAllDisks(_)
SumAllDisks(disks) ==
    IF disks = <<>> THEN <<0, 0>>
    ELSE LET d == Head(disks)
             rest == SumAllDisks(Tail(disks))
         IN  <<rest[1] + d.used_bytes, rest[2] + d.total_bytes>>

\* The second loop of aggregate_disk_usage: the sums over the non-removable
\* disks.
RECURSIVE SumNonRemovable(_)
SumNonRemovable(disks) ==
    IF disks = <<>> THEN <<0, 0>>
    ELSE LET d == Head(disks)
             rest == SumNonRemovable(Tail(disks))
         IN  IF ~d.is_removable
             THEN <<rest[1] + d.used_bytes, rest[2] + d.total_bytes>>
             ELSE rest

\* A variant of aggregate_disk_usage without the first-disk fallback.
aggregate_no_fallback(disks) ==
    LET prim == {i \in 1..Len(disks) : IsPrimary(disks[i])}
    IN  IF prim # {}
        THEN LET i == CHOOSE k \in prim : \A j \in prim : k <= j
             IN  <<disks[i].used_bytes, disks[i].total_bytes>>
        ELSE SumNonRemovable(disks)

\* aggregate_disk_usage: <<used, total>>.

aggregate_disk_usage(disks) ==
    LET prim == {i \in 1..Len(disks) : IsPrimary(disks[i])}
        sums == SumNonRemovable(disks)
    IN  IF prim # {}
        THEN LET i == CHOOSE k \in prim : \A j \in prim : k <= j
             IN  <<disks[i].used_bytes, disks[i].total_bytes>>
        ELSE IF sums[2] = 0 /\ disks # <<>>
             THEN <<disks[1].used_bytes, disks[1].total_bytes>>
             ELSE sums

\* A percentage as the exact quotient num/den (den > 0 unless a division by
\* zero was evaluated).
Zero == [num |-> 0, den |-> 1]

\* A variant of percent without the `total > 0` guard.
percent_unguarded(used, total) ==
    [pct |-> [num |-> used * 100, den |-> total], divided_by |-> {total}]

\* The percentage computation of collect_with_mode:
\*   if total > 0 { (used as f64 / total as f64) * 100.0 } else { 0.0 }
\* with the denominators of the divisions it evaluates.
percent(used, total) ==
    IF total > 0
    THEN [pct |-> [num |-> used * 100, den |-> total], divided_by |-> {total}]
    ELSE [pct |-> Zero, divided_by |-> {}]

\* platform_info.virtualization.or_else(|| if Full { "Bare Metal" } else None)
hypervisor_label(virtualization, m) ==
    IF virtualization # None THEN virtualization
    ELSE IF m = "Full" THEN BareMetal ELSE None

\* --------------------------------------------------- the collectors' outputs

\* What a collector thread ends with: Ok(value), Err(AppError) or a panic.
Kinds == {"Ok", "Err", "Panic"}

NoMem == [total_bytes |-> 0, used_bytes |-> 0]

\* The packet of a thread that has not finished.
Empty == [kind |-> None, disks |-> <<>>, mem |-> NoMem, virtualization |-> None]

\* The value collector c ends with in environment e: disk::collect and
\* memory::collect applied to what the system reports, PlatformInfo's
\* virtualization for the platform collector.
Output(c, e) ==
    LET ok == e.outcome[c] = "Ok"
    IN  [kind |-> e.outcome[c],
         disks |-> IF ok /\ c = "disk" THEN disk_collect(e.sys_disks) ELSE <<>>,
         mem |-> IF ok /\ c = "memory" THEN memory_collect(e.sys_mem) ELSE NoMem,
         virtualization |-> IF ok /\ c = "platform" THEN e.virtualization ELSE None]

\* The outcomes a collector's signature allows: platform::collect returns a
\* PlatformInfo, not a Result, so it cannot return Err.
KindsOf(c) == IF c = "platform" THEN {"Ok", "Panic"} ELSE Kinds

Outcomes ==
    {o \in [Collectors -> Kinds] :
        /\ \A c \in Collectors : o[c] \in KindsOf(c)
        /\ Cardinality({c \in Collectors : o[c] # "Ok"}) <= MaxFaults}

AllOk == [c \in Collectors |-> "Ok"]

\* ------------------------------------------------------------ the snapshot

NoSnapshot == [present |-> FALSE]

NoResult == [kind |-> None, by |-> None]

\* The SystemInfo built at the end of collect_with_mode from the joined
\* values g (the fields the claims read).
BuildSnapshot(g, m) ==
    LET agg == aggregate_disk_usage(g["disk"].disks)
        dp == percent(agg[1], agg[2])
        mp == percent(g["memory"].mem.used_bytes, g["memory"].mem.total_bytes)
    IN  [snap |-> [present |-> TRUE,
                   disk_used_bytes |-> agg[1],
                   disk_total_bytes |-> agg[2],
                   disk_percent |-> dp.pct,
                   mem_used_bytes |-> g["memory"].mem.used_bytes,
                   mem_total_bytes |-> g["memory"].mem.total_bytes,
                   mem_percent |-> mp.pct,
                   hypervisor |-> hypervisor_label(g["platform"].virtualization, m),
                   mode |-> m],
         divided_by |-> dp.divided_by \cup mp.divided_by]

\* ------------------------------------------------------------- the actions

\* Scope::spawn, lines 83-89: the next collector of Order starts running.
Spawn ==
    /\ pc = "spawn"
    /\ spawned < Len(Order)
    /\ LET c == Order[spawned + 1]
       IN  /\ th' = [th EXCEPT ![c] = "running"]
           /\ starts' = [starts EXCEPT ![c] = @ + 1]
    /\ spawned' = spawned + 1
    /\ pc' = IF spawned + 1 = Len(Order) THEN "join" ELSE "spawn"
    /\ UNCHANGED <<mode, env, joined, got, closurePanic, result, snapshot,
                   divs, rendered, exitCode, events, out>>

\* Whether the body of collector c comes to an end: a blocking call that
\* never returns (a hung subprocess) keeps the thread running for ever.
Terminates(c) == env.outcome[c] # "Hang"

\* A running collector thread terminates (returns or panics).
Finish(c) ==
    /\ th[c] = "running"
    /\ Terminates(c)
    /\ th' = [th EXCEPT ![c] = "done"]
    /\ UNCHANGED <<mode, env, pc, spawned, starts, joined, got, closurePanic,
                   result, snapshot, divs, rendered, exitCode, events, out>>

\* A variant of Joinable: a join that does not wait for the thread.
JoinableNoBlock(c) == TRUE

\* ScopedJoinHandle::join blocks until the thread has terminated.

Joinable(c) == th[c] = "done"

\* What join() hands back for collector c: the thread's result once it has
\* terminated.
Packet(c) == IF th[c] = "done" THEN Output(c, env) ELSE Empty

\* Lines 92-98: h.join().unwrap() for the next collector of Order.  A panic
\* of the thread makes unwrap() panic: the closure unwinds.
Join ==
    /\ pc = "join"
    /\ joined < Len(Order)
    /\ LET c == Order[joined + 1]
       IN  /\ Joinable(c)
           /\ IF Packet(c).kind = "Panic"
              THEN /\ closurePanic' = c
                   /\ pc' = "scope_end"
                   /\ UNCHANGED <<got, joined>>
              ELSE /\ got' = [got EXCEPT ![c] = Packet(c)]
                   /\ joined' = joined + 1
                   /\ pc' = IF joined + 1 = Len(Order) THEN "scope_end" ELSE "join"
                   /\ UNCHANGED closurePanic
    /\ UNCHANGED <<mode, env, spawned, th, starts, result, snapshot, divs,
                   rendered, exitCode, events, out>>

\* A variant of AllThreadsFinished: a scope that does not wait.
AllThreadsFinishedNoWait == TRUE

\* std::thread::scope waits for every spawned thread before it returns or
\* resumes the closure's panic.

AllThreadsFinished == \A c \in Collectors : th[c] # "running"

\* The end of std::thread::scope (line 100): after all threads have
\* terminated, either the closure's panic is resumed (collect_with_mode
\* unwinds) or its tuple is returned.
ScopeEnd ==
    /\ pc = "scope_end"
    /\ AllThreadsFinished
    /\ IF closurePanic # None
       THEN /\ result' = [kind |-> "Panic", by |-> closurePanic]
            /\ pc' = "panicked"
       ELSE /\ pc' = "try"
            /\ UNCHANGED result
    /\ UNCHANGED <<mode, env, spawned, th, starts, joined, got, closurePanic,
                   snapshot, divs, rendered, exitCode, events, out>>

\* The index in TryOrder of the Err that `?` returns.
FirstErr(g) ==
    LET errs == {i \in 1..Len(TryOrder) : g[TryOrder[i]].kind = "Err"}
    IN  IF errs = {} THEN 0 ELSE CHOOSE k \in errs : \A j \in errs : k <= j

\* Lines 102-107: os_info?, cpu_info?, mem_info?, disks?, net_info?,
\* session_info?: the first Err in that order is returned.
Try ==
    /\ pc = "try"
    /\ IF FirstErr(got) # 0
       THEN /\ result' = [kind |-> "Err", by |-> TryOrder[FirstErr(got)]]
            /\ pc' = "returned"
       ELSE /\ pc' = "aggregate"
            /\ UNCHANGED result
    /\ UNCHANGED <<mode, env, spawned, th, starts, joined, got, closurePanic,
                   snapshot, divs, rendered, exitCode, events, out>>

\* Lines 109-169: the disk aggregate, the percentages, the hypervisor label
\* and Ok(Self { .. }).
Aggregate ==
    /\ pc = "aggregate"
    /\ LET b == BuildSnapshot(got, mode)
       IN  /\ snapshot' = b.snap
           /\ divs' = divs \cup b.divided_by
    /\ result' = [kind |-> "Ok", by |-> None]
    /\ pc' = "returned"
    /\ UNCHANGED <<mode, env, spawned, th, starts, joined, got, closurePanic,
                   rendered, exitCode, events, out>>

\* The exit status of the process: 0 when main returns Ok, 1 when it returns
\* Err (the error is printed), 101 when the main thread panicked.
ExitOk == 0

ExitErr == 1

ExitPanic == 101

\* run_report and main: `collect_with_mode(mode)?`, then report::generate and
\* print!, then the process exits.
RunReport ==
    /\ pc \in {"returned", "panicked"}
    /\ rendered' = (result.kind = "Ok")
    /\ exitCode' = IF result.kind = "Ok" THEN ExitOk
                   ELSE IF result.kind = "Err" THEN ExitErr ELSE ExitPanic
    /\ pc' = "exit"
    /\ UNCHANGED <<mode, env, spawned, th, starts, joined, got, closurePanic,
                   result, snapshot, divs, events, out>>

\* ------------------------------------------------------- the specifications

\* What the system reports in the runs of Spec.
DefaultDisks ==
    <<[mount_point |-> Root, total_space |-> 2, available_space |-> 1,
       is_removable |-> FALSE]>>

DefaultMem == [total_memory |-> 2, used_memory |-> 1]

Virtualizations == {None, "KVM"}

StartOfCollect(m, e) ==
    /\ mode = m
    /\ env = e
    /\ pc = "spawn"
    /\ spawned = 0
    /\ th = [c \in Collectors |-> "idle"]
    /\ starts = [c \in Collectors |-> 0]
    /\ joined = 0
    /\ got = [c \in Collectors |-> Empty]
    /\ closurePanic = None
    /\ result = NoResult
    /\ snapshot = NoSnapshot
    /\ divs = {}
    /\ rendered = FALSE
    /\ exitCode = -1
    /\ events = <<>>
    /\ out = None

\* main calls run_report(config, mode): any mode, any outcome of each
\* collector.
Init ==
    \E m \in Modes, o \in Outcomes, v \in Virtualizations :
        StartOfCollect(m, [outcome |-> o, sys_disks |-> DefaultDisks,
                           sys_mem |-> DefaultMem, virtualization |-> v])

Next ==
    \/ Spawn
    \/ \E c \in Collectors : Finish(c)
    \/ Join
    \/ ScopeEnd
    \/ Try
    \/ Aggregate
    \/ RunReport

Spec == Init /\ [][Next]_vars

\* The outcomes of the runs of SpecLive: at most one collector hangs and at
\* most one other panics, the rest return Ok.
OutcomesLive ==
    {[c \in Collectors |-> IF c = h THEN "Hang" ELSE IF c = p THEN "Panic" ELSE "Ok"] :
        h \in Collectors \cup {None}, p \in Collectors \cup {None}}

InitLive ==
    \E m \in Modes, o \in OutcomesLive :
        StartOfCollect(m, [outcome |-> o, sys_disks |-> DefaultDisks,
                           sys_mem |-> DefaultMem, virtualization |-> None])

\* The steps of the thread that called collect_with_mode.
MainStep == Spawn \/ Join \/ ScopeEnd \/ Try \/ Aggregate \/ RunReport

\* collect_with_mode under a fair scheduler: the calling thread and every
\* collector thread that can take a step eventually takes it.
SpecLive ==
    /\ InitLive
    /\ [][Next]_vars
    /\ WF_vars(MainStep)
    /\ \A c \in Collectors : WF_vars(Finish(c))

\* What the system reports in the runs of SpecAgg: up to MaxDisks disks, each
\* with any mount point of MountPoints, removable or not, and a
\* <<total, available>> pair of DiskSpaces (an empty volume, a half-used one,
\* one that reports more available than total); memory as <<total, used>>.
DiskSpaces == {<<0, 0>>, <<2, 1>>, <<1, 2>>}

MemFigures == {<<0, 0>>, <<0, 1>>, <<2, 1>>, <<2, 2>>, <<2, 3>>}

SysDisk ==
    {[mount_point |-> mp, total_space |-> sp[1], available_space |-> sp[2],
      is_removable |-> r] :
        mp \in MountPoints, sp \in DiskSpaces, r \in BOOLEAN}

SysDiskLists == UNION {[1..n -> SysDisk] : n \in 0..MaxDisks}

SysMem == {[total_memory |-> f[1], used_memory |-> f[2]] : f \in MemFigures}

\* The state of collect_with_mode at line 102, every collector having
\* returned Ok and been joined.
AfterJoin(m, e) ==
    /\ mode = m
    /\ env = e
    /\ pc = "try"
    /\ spawned = Len(Order)
    /\ th = [c \in Collectors |-> "done"]
    /\ starts = [c \in Collectors |-> 1]
    /\ joined = Len(Order)
    /\ got = [c \in Collectors |-> Output(c, e)]
    /\ closurePanic = None
    /\ result = NoResult
    /\ snapshot = NoSnapshot
    /\ divs = {}
    /\ rendered = FALSE
    /\ exitCode = -1
    /\ events = <<>>
    /\ out = None

InitAgg ==
    \E m \in Modes, ds \in SysDiskLists, sm \in SysMem :
        AfterJoin(m, [outcome |-> AllOk, sys_disks |-> ds, sys_mem |-> sm,
                      virtualization |-> None])

NextAgg ==
    \/ Try
    \/ Aggregate
    \/ RunReport

\* The aggregation of collect_with_mode over the outputs of the disk and
\* memory collectors.
SpecAgg == InitAgg /\ [][NextAgg]_vars

\* ------------------------------------------------------ the CPU collector

\* The operating systems the collectors are compiled for; cfg(unix) holds on
\* the first two.
Platforms == {"linux", "macos", "windows", "other"}

Unix == {"linux", "macos"}

\* Duration::from_millis(200)
SleepMs == 200

\* An effect of a collector: <<operation, argument>>.
Ev(op, arg) == <<op, arg>>

Max(a, b) == IF a >= b THEN a ELSE b

Min(a, b) == IF a <= b THEN a ELSE b

\* What a probe yields: nothing, or one value.
Failed == <<>>

Some(v) == <<v>>

\* get_socket_count: lscpu's "Socket(s):" line on Linux, `sysctl -n
\* hw.packages` on macOS, WMI then PowerShell on Windows; 1 when no method
\* answers.  probe[i] is what method i yields: the number parsed, if any.
get_socket_count(platform, probe) ==
    IF platform = "linux"
    THEN [events |-> <<Ev("spawn", "lscpu")>>,
          value |-> IF probe[1] = Failed THEN 1 ELSE probe[1][1]]
    ELSE IF platform = "macos"
    THEN [events |-> <<Ev("spawn", "sysctl")>>,
          value |-> IF probe[1] = Failed THEN 1 ELSE Max(probe[1][1], 1)]
    ELSE IF platform = "windows"
    THEN IF probe[1] # Failed
         THEN [events |-> <<Ev("wmi", "Win32_Processor")>>,
               value |-> Max(probe[1][1], 1)]
         ELSE [events |-> <<Ev("wmi", "Win32_Processor"), Ev("spawn", "powershell")>>,
               value |-> IF probe[2] = Failed THEN 1 ELSE Max(probe[2][1], 1)]
    ELSE [events |-> <<>>, value |-> 1]

\* `(load / max_load * 100.0).min(100.0)`, in whole percent.
load_percent(load, core_count) == Min((load * 100) \div core_count, 100)

\* A variant of get_load_averages whose last Unix fallback is no figure.
get_load_averages_no_default(platform, m, core_count, current_usage, loadavg) ==
    LET pct(l) == [i \in 1..3 |-> Some(load_percent(l[i], core_count))]
    IN  IF platform \in Unix
        THEN IF loadavg.proc # Failed
             THEN [events |-> <<Ev("read", "/proc/loadavg")>>,
                   value |-> pct(loadavg.proc[1])]
             ELSE [events |-> <<Ev("read", "/proc/loadavg"), Ev("call", "getloadavg")>>,
                   value |-> IF loadavg.libc # Failed THEN pct(loadavg.libc[1])
                             ELSE <<Failed, Failed, Failed>>]
        ELSE [events |-> <<>>,
              value |-> IF m = "Fast" THEN <<Failed, Failed, Failed>>
                        ELSE [i \in 1..3 |-> Some(current_usage)]]

\* get_load_averages: the three figures, each one of Failed (None) or
\* Some(percent).  On Unix /proc/loadavg (loadavg.proc: the three loads
\* parsed from a content of at least three parts), then getloadavg
\* (loadavg.libc), then the constant 0.0; elsewhere the current usage, or
\* nothing in Fast mode.
get_load_averages(platform, m, core_count, current_usage, loadavg) ==
    LET pct(l) == [i \in 1..3 |-> Some(load_percent(l[i], core_count))]
    IN  IF platform \in Unix
        THEN IF loadavg.proc # Failed
             THEN [events |-> <<Ev("read", "/proc/loadavg")>>,
                   value |-> pct(loadavg.proc[1])]
             ELSE [events |-> <<Ev("read", "/proc/loadavg"), Ev("call", "getloadavg")>>,
                   value |-> IF loadavg.libc # Failed THEN pct(loadavg.libc[1])
                             ELSE [i \in 1..3 |-> Some(0)]]
        ELSE [events |-> <<>>,
              value |-> IF m = "Fast" THEN <<Failed, Failed, Failed>>
                        ELSE [i \in 1..3 |-> Some(current_usage)]]

\* A variant of cpu_collect that probes the socket count in both modes.
cpu_collect_always_probes(m, e) ==
    LET samples == IF m = "Full" THEN 2 ELSE 1
        sampling == <<Ev("refresh_cpu_all", 1)>>
                    \o (IF m = "Full"
                        THEN <<Ev("sleep", SleepMs), Ev("refresh_cpu_all", 2)>>
                        ELSE <<>>)
        load == get_load_averages(e.platform, m, e.cores, e.usage[samples], e.loadavg)
        g == get_socket_count(e.platform, e.socket_probe)
    IN  [events |-> sampling \o <<Ev("cpu_usage", samples)>> \o load.events
                    \o <<Ev("call", "get_socket_count")>> \o g.events,
         value |-> [unit |-> "cpu",
                    usage_percent |-> e.usage[samples],
                    load_1m |-> load.value[1],
                    load_5m |-> load.value[2],
                    load_15m |-> load.value[3],
                    sockets |-> Some(g.value)]]

\* A variant of cpu_collect that reads the usage before the wait.
cpu_collect_reads_early(m, e) ==
    LET sampling == <<Ev("refresh_cpu_all", 1), Ev("cpu_usage", 1)>>
                    \o (IF m = "Full"
                        THEN <<Ev("sleep", SleepMs), Ev("refresh_cpu_all", 2)>>
                        ELSE <<>>)
        load == get_load_averages(e.platform, m, e.cores, e.usage[1], e.loadavg)
        sock == IF m = "Fast"
                THEN [events |-> <<>>, value |-> Failed]
                ELSE LET g == get_socket_count(e.platform, e.socket_probe)
                     IN  [events |-> <<Ev("call", "get_socket_count")>> \o g.events,
                          value |-> Some(g.value)]
    IN  [events |-> sampling \o load.events \o sock.events,
         value |-> [unit |-> "cpu",
                    usage_percent |-> e.usage[1],
                    load_1m |-> load.value[1],
                    load_5m |-> load.value[2],
                    load_15m |-> load.value[3],
                    sockets |-> sock.value]]

\* cpu::collect, lines 33-80: its effects in program order and the CpuInfo it
\* returns.  e.usage[n] is the usage sysinfo reports after n samples.

cpu_collect(m, e) ==
    LET samples == IF m = "Full" THEN 2 ELSE 1
        sampling == <<Ev("refresh_cpu_all", 1)>>
                    \o (IF m = "Full"
                        THEN <<Ev("sleep", SleepMs), Ev("refresh_cpu_all", 2)>>
                        ELSE <<>>)
        load == get_load_averages(e.platform, m, e.cores, e.usage[samples], e.loadavg)
        sock == IF m = "Fast"
                THEN [events |-> <<>>, value |-> Failed]
                ELSE LET g == get_socket_count(e.platform, e.socket_probe)
                     IN  [events |-> <<Ev("call", "get_socket_count")>> \o g.events,
                          value |-> Some(g.value)]
    IN  [events |-> sampling \o <<Ev("cpu_usage", samples)>> \o load.events
                    \o sock.events,
         value |-> [unit |-> "cpu",
                    usage_percent |-> e.usage[samples],
                    load_1m |-> load.value[1],
                    load_5m |-> load.value[2],
                    load_15m |-> load.value[3],
                    sockets |-> sock.value]]

\* ---------------------------------------- the network and session collectors

Range(q) == {q[i] : i \in 1..Len(q)}

\* A fallback chain of commands: each is spawned in turn until one yields a
\* value; results[i] is what command i yields: the value parsed, if any.
chain(cmds, results) ==
    LET ok == {i \in 1..Len(cmds) : results[i] # Failed}
        last == IF ok = {} THEN Len(cmds)
                ELSE CHOOSE k \in ok : \A j \in ok : k <= j
    IN  [events |-> [i \in 1..last |-> Ev("spawn", cmds[i])],
         value |-> IF ok = {} THEN Failed ELSE results[last]]

Unknown == "Unknown"

\* get_machine_ip_linux: `hostname -I`, then `ip route get 1`, then the
\* string "Unknown".
get_machine_ip_linux(results) ==
    LET c == chain(<<"hostname", "ip">>, results)
    IN  [events |-> c.events,
         value |-> IF c.value = Failed THEN Unknown ELSE c.value[1]]

\* The bound of the DNS server loops: `if servers.len() >= 5 { break; }`.
DnsCap == 5

\* One `for ip in ..` loop of get_dns_servers_linux: an address not yet in
\* the list is pushed, and the loop is left once the list has 5 entries.
RECURSIVE push_servers(_, _)
push_servers(servers, ips) ==
    IF ips = <<>> THEN servers
    ELSE IF Head(ips) \in Range(servers) THEN push_servers(servers, Tail(ips))
    ELSE LET pushed == Append(servers, Head(ips))
         IN  IF Len(pushed) >= DnsCap THEN pushed
             ELSE push_servers(pushed, Tail(ips))

\* The `for line in stdout.lines()` loop over resolvectl's "DNS Servers:"
\* lines; the inner break leaves the line, not this loop.
RECURSIVE push_lines(_, _)
push_lines(servers, lines) ==
    IF lines = <<>> THEN servers
    ELSE push_lines(push_servers(servers, Head(lines)), Tail(lines))

\* get_dns_servers_linux: the nameserver addresses of /etc/resolv.conf and,
\* when that gives none, the addresses of `resolvectl status`.
get_dns_servers_linux(resolv, resolvectl) ==
    LET first == IF resolv = Failed THEN <<>> ELSE push_servers(<<>>, resolv[1])
    IN  IF first # <<>>
        THEN [events |-> <<Ev("read", "/etc/resolv.conf")>>, value |-> first]
        ELSE [events |-> <<Ev("read", "/etc/resolv.conf"), Ev("spawn", "resolvectl")>>,
              value |-> IF resolvectl = Failed THEN <<>>
                        ELSE push_lines(<<>>, resolvectl[1])]

\* collect_network_info on Linux: machine IP, client IP (SSH_CLIENT, then
\* SSH_CONNECTION) and DNS servers.  It takes no mode.
collect_network_info(e) ==
    LET ip == get_machine_ip_linux(e.ip_probe)
        dns == get_dns_servers_linux(e.resolv, e.resolvectl)
    IN  [events |-> ip.events \o <<Ev("env", "SSH_CLIENT")>> \o dns.events,
         value |-> [unit |-> "network",
                    machine_ip |-> ip.value,
                    client_ip |-> e.ssh_client,
                    dns_servers |-> dns.value]]

\* The commands get_last_login tries on each platform.
LastLoginCommands(platform) ==
    IF platform = "linux" THEN <<"lastlog2", "lastlog", "last">>
    ELSE IF platform = "macos" THEN <<"last">>
    ELSE IF platform = "windows" THEN <<"net">>
    ELSE <<>>

Unavailable == "Login tracking unavailable"

\* get_last_login: the first command that yields a <<time, ip>> pair, else
\* the string "Login tracking unavailable" and no IP.
get_last_login(platform, results) ==
    LET c == chain(LastLoginCommands(platform), results)
    IN  [events |-> c.events,
         value |-> IF c.value = Failed THEN <<Unavailable, None>> ELSE c.value[1]]

\* A variant of session_collect that skips the last login in Fast mode on
\* every platform.
session_collect_skips_everywhere(m, e) ==
    LET skip == m = "Fast"
        login == IF skip THEN [events |-> <<>>, value |-> <<None, None>>]
                 ELSE get_last_login(e.platform, e.login_probe)
    IN  [events |-> <<Ev("env", "USER"), Ev("env", "SHELL"), Ev("env", "TERM")>>
                    \o login.events,
         value |-> [unit |-> "session",
                    last_login |-> login.value[1],
                    last_login_ip |-> login.value[2]]]

\* A variant of session_collect that never skips the last login.
session_collect_never_skips(m, e) ==
    LET login == get_last_login(e.platform, e.login_probe)
    IN  [events |-> <<Ev("env", "USER"), Ev("env", "SHELL"), Ev("env", "TERM")>>
                    \o login.events,
         value |-> [unit |-> "session",
                    last_login |-> login.value[1],
                    last_login_ip |-> login.value[2]]]

\* session::collect, lines 28-59: the last login is skipped in Fast mode on
\* Windows only; otherwise last_login is Some(login).

session_collect(m, e) ==
    LET skip == m = "Fast" /\ e.platform = "windows"
        login == IF skip THEN [events |-> <<>>, value |-> <<None, None>>]
                 ELSE get_last_login(e.platform, e.login_probe)
    IN  [events |-> <<Ev("env", "USER"), Ev("env", "SHELL"), Ev("env", "TERM")>>
                    \o login.events,
         value |-> [unit |-> "session",
                    last_login |-> login.value[1],
                    last_login_ip |-> login.value[2]]]

\* ------------------------------------------------- the platform collectors

\* What a probe of the model returns when the claims do not read its value.
Probed(name) == name

\* The names pushed by the lspci loop of get_gpus: one per line that names a
\* VGA, 3D or display controller and has a non-empty name after ": ".
RECURSIVE lspci_names(_)
lspci_names(lines) ==
    IF lines = <<>> THEN <<>>
    ELSE LET l == Head(lines)
         IN  (IF l.controller /\ l.name # "" THEN <<l.name>> ELSE <<>>)
             \o lspci_names(Tail(lines))

\* linux::get_gpus: the lspci names, or, when there are none, the "GPU cardN"
\* of every card of /sys/class/drm (drm lists them as formatted).
get_gpus(lspci, drm) ==
    LET names == IF lspci = Failed THEN <<>> ELSE lspci_names(lspci[1])
    IN  IF names # <<>>
        THEN [events |-> <<Ev("spawn", "lspci")>>, value |-> names]
        ELSE [events |-> <<Ev("spawn", "lspci"), Ev("read", "/sys/class/drm")>>,
              value |-> drm]

\* linux get_terminal, get_shell and get_locale: environment variables when
\* they are set (get_shell then asks the shell for its version), commands
\* otherwise.
linux_env_probes(envset) ==
    IF envset
    THEN [events |-> <<Ev("env", "TERM_PROGRAM"), Ev("env", "SHELL"),
                       Ev("spawn", "shell --version"), Ev("env", "LANG")>>,
          terminal |-> Probed("terminal"), shell |-> Probed("shell"),
          locale |-> Probed("locale")]
    ELSE [events |-> <<Ev("env", "TERM_PROGRAM"), Ev("spawn", "ps"), Ev("spawn", "ps"),
                       Ev("spawn", "ps"), Ev("env", "SHELL"), Ev("env", "LANG"),
                       Ev("spawn", "locale")>>,
          terminal |-> None, shell |-> None, locale |-> None]

\* linux::collect, lines 11-39.
linux_collect(m, e) ==
    LET gpus == IF m = "Fast" THEN [events |-> <<>>, value |-> <<>>]
                ELSE get_gpus(e.gpu_lines, e.drm)
        envp == linux_env_probes(e.envset)
    IN  [events |-> <<Ev("env", "XDG_CURRENT_DESKTOP"), Ev("env", "XDG_SESSION_TYPE")>>
                    \o (IF m = "Fast" THEN <<>> ELSE <<Ev("read", "/sys/firmware/efi")>>)
                    \o <<Ev("read", "/sys/class/dmi/id/product_name")>>
                    \o gpus.events
                    \o envp.events
                    \o (IF m = "Fast" THEN <<>>
                        ELSE IF e.resolution # None THEN <<Ev("spawn", "xrandr")>>
                        ELSE <<Ev("spawn", "xrandr"), Ev("spawn", "wlr-randr")>>)
                    \o <<Ev("read", "/sys/class/power_supply")>>,
         value |-> [unit |-> "platform",
                    boot_mode |-> IF m = "Fast" THEN None
                                  ELSE IF e.efi THEN "UEFI" ELSE "Legacy BIOS",
                    virtualization |-> e.virtualization,
                    windows_edition |-> None,
                    gpus |-> gpus.value,
                    terminal |-> envp.terminal,
                    shell |-> envp.shell,
                    display_resolution |-> IF m = "Fast" THEN None
                                           ELSE e.resolution,
                    battery |-> Probed("battery"),
                    locale |-> envp.locale]]

\* A variant of get_display_info that asks system_profiler once per field.
get_display_info_per_field(response, resolution) ==
    [events |-> <<Ev("spawn", "system_profiler SPDisplaysDataType"),
                  Ev("spawn", "system_profiler SPDisplaysDataType")>>,
     gpus |-> IF response = Failed THEN <<>> ELSE lspci_names(response[1]),
     resolution |-> IF response = Failed THEN None ELSE resolution]

\* macos get_display_info, lines 128-167: one system_profiler
\* SPDisplaysDataType call; of its output (response: the "Chipset Model:"
\* lines; resolution: what the first "Resolution:" line gives, if any) the
\* non-empty chipset names and the resolution.  No output, no GPU and no
\* resolution.
get_display_info(response, resolution) ==
    [events |-> <<Ev("spawn", "system_profiler SPDisplaysDataType")>>,
     gpus |-> IF response = Failed THEN <<>> ELSE lspci_names(response[1]),
     resolution |-> IF response = Failed THEN None ELSE resolution]

\* macos::collect, lines 10-47: Fast mode returns before any system_profiler
\* or uname call; Full mode calls system_profiler SPDisplaysDataType once
\* for the GPUs and the resolution.
macos_collect(m, e) ==
    LET quick == <<Ev("spawn", "sw_vers"), Ev("env", "TERM_PROGRAM"), Ev("env", "SHELL"),
                   Ev("spawn", "shell --version"), Ev("spawn", "pmset"),
                   Ev("env", "LANG")>>
        display == get_display_info(e.gpu_lines, e.resolution)
    IN  IF m = "Fast"
        THEN [events |-> quick,
              value |-> [unit |-> "platform", boot_mode |-> None,
                         virtualization |-> None, windows_edition |-> None,
                         gpus |-> <<>>,
                         terminal |-> Probed("terminal"), shell |-> Probed("shell"),
                         display_resolution |-> None,
                         battery |-> Probed("battery"), locale |-> Probed("locale")]]
        ELSE [events |-> display.events
                         \o <<Ev("spawn", "sw_vers"), Ev("spawn", "uname"),
                              Ev("spawn", "system_profiler SPHardwareDataType")>>
                         \o Tail(quick),
              value |-> [unit |-> "platform", boot_mode |-> Probed("boot_mode"),
                         virtualization |-> e.virtualization,
                         windows_edition |-> None,
                         gpus |-> display.gpus,
                         terminal |-> Probed("terminal"), shell |-> Probed("shell"),
                         display_resolution |-> display.resolution,
                         battery |-> Probed("battery"), locale |-> Probed("locale")]]

\* The facts windows::collect asks WMI for, each with a PowerShell fallback.
WmiFacts == <<"windows_edition", "virtualization", "gpus", "battery">>

\* What a query for fact f returns when it answers.
WmiValue(f) == IF f = "gpus" THEN <<"Intel UHD", "Intel UHD">> ELSE f

\* What is left of fact f when neither WMI nor PowerShell answers.
Absent(f) == IF f = "gpus" THEN <<>> ELSE None

\* A variant of wmi_or_ps that runs the PowerShell command whatever the WMI
\* query gave, and keeps the WMI value when there is one.
wmi_and_ps(f, e) ==
    [events |-> (IF e.wmi_conn THEN <<Ev("wmi", f)>> ELSE <<>>)
                \o <<Ev("powershell", f)>>,
     value |-> IF (e.wmi_conn /\ e.wmi[f]) \/ e.ps[f] THEN WmiValue(f)
               ELSE Absent(f)]

\* One fact of windows::collect in Full mode: `get_f_wmi(wmi).or_else(get_f_ps)`
\* when the connection was made (the PowerShell command runs only when the
\* WMI query yields None, or no GPU), `get_f_ps()` alone when it was not.
wmi_or_ps(f, e) ==
    IF e.wmi_conn /\ e.wmi[f]
    THEN [events |-> <<Ev("wmi", f)>>, value |-> WmiValue(f)]
    ELSE [events |-> (IF e.wmi_conn THEN <<Ev("wmi", f)>> ELSE <<>>)
                     \o <<Ev("powershell", f)>>,
          value |-> IF e.ps[f] THEN WmiValue(f) ELSE Absent(f)]

\* windows::collect, lines 63-126: Fast mode returns the architecture and the
\* terminal from environment variables only.
windows_collect(m, e) ==
    IF m = "Fast"
    THEN [events |-> <<Ev("env", "WT_SESSION")>>,
          value |-> [unit |-> "platform", boot_mode |-> None,
                     virtualization |-> None, windows_edition |-> None,
                     gpus |-> <<>>, terminal |-> Probed("terminal"),
                     shell |-> None, display_resolution |-> None,
                     battery |-> None, locale |-> None]]
    ELSE LET r == [i \in 1..Len(WmiFacts) |-> wmi_or_ps(WmiFacts[i], e)]
         IN  [events |-> <<Ev("wmi", "connect")>>
                         \o r[1].events \o r[2].events \o r[3].events \o r[4].events
                         \o <<Ev("env", "firmware_type"), Ev("env", "WT_SESSION"),
                              Ev("env", "PSModulePath")>>,
              value |-> [unit |-> "platform", boot_mode |-> Probed("boot_mode"),
                         virtualization |-> r[2].value,
                         windows_edition |-> r[1].value,
                         gpus |-> r[3].value,
                         terminal |-> Probed("terminal"),
                         shell |-> Probed("shell"),
                         display_resolution |-> Probed("display_resolution"),
                         battery |-> r[4].value,
                         locale |-> Probed("locale")]]

\* PlatformInfo::default(), for the other operating systems.
default_platform_info ==
    [events |-> <<>>,
     value |-> [unit |-> "platform", boot_mode |-> None, virtualization |-> None,
                windows_edition |-> None, gpus |-> <<>>, terminal |-> None,
                shell |-> None, display_resolution |-> None, battery |-> None,
                locale |-> None]]

\* platform::collect
platform_collect(m, e) ==
    IF e.platform = "linux" THEN linux_collect(m, e)
    ELSE IF e.platform = "macos" THEN macos_collect(m, e)
    ELSE IF e.platform = "windows" THEN windows_collect(m, e)
    ELSE default_platform_info

\* ------------------------------------------- one collector, run on its own

\* Sequences over S of at most n elements.
SeqUpTo(S, n) == UNION {[1..k -> S] : k \in 0..n}

Ips == {"10.0.0.1", "10.0.0.2"}

IpLists == SeqUpTo(Ips, MaxEntries)

\* A line of a GPU listing: whether it names a display controller, and the
\* name after the colon.
GpuLines ==
    {[controller |-> TRUE, name |-> "Intel UHD"],
     [controller |-> TRUE, name |-> "NVIDIA GA102"],
     [controller |-> TRUE, name |-> ""],
     [controller |-> FALSE, name |-> "Ethernet"]}

CpuEnvs ==
    {[unit |-> "cpu", platform |-> p, cores |-> 2, usage |-> u,
      loadavg |-> [proc |-> lp, libc |-> ll], socket_probe |-> sp] :
        p \in Platforms, u \in [1..2 -> {0, 50}],
        lp \in {Failed, Some(<<0, 1, 3>>)}, ll \in {Failed, Some(<<1, 1, 1>>)},
        sp \in [1..2 -> {Failed, Some(0), Some(2)}]}

\* resolvectl is consulted only when /etc/resolv.conf gives no address.
NetworkEnvs ==
    {[unit |-> "network", platform |-> "linux", ip_probe |-> ip, ssh_client |-> ssh,
      resolv |-> r, resolvectl |-> rc] :
        ip \in [1..2 -> {Failed, Some("192.168.1.7")}], ssh \in {None, "203.0.113.9"},
        r \in {Failed} \cup {Some(l) : l \in IpLists}, rc \in {Failed}}
    \cup
    {[unit |-> "network", platform |-> "linux", ip_probe |-> ip, ssh_client |-> ssh,
      resolv |-> r, resolvectl |-> rc] :
        ip \in [1..2 -> {Failed, Some("192.168.1.7")}], ssh \in {None, "203.0.113.9"},
        r \in {Failed, Some(<<>>)},
        rc \in {Failed} \cup {Some(ls) : ls \in SeqUpTo(IpLists, 2)}}

SessionEnvs ==
    {[unit |-> "session", platform |-> p, login_probe |-> lp] :
        p \in Platforms,
        lp \in [1..3 -> {Failed, Some(<<"Mon Nov 2", None>>),
                         Some(<<"Mon Nov 2", "203.0.113.9">>)}]}

PlatformEnvs ==
    {[unit |-> "platform", platform |-> p, gpu_lines |-> g, drm |-> d,
      resolution |-> x, efi |-> b, envset |-> v, virtualization |-> vz] :
        p \in {"linux", "macos", "other"},
        g \in {Failed} \cup {Some(ls) : ls \in SeqUpTo(GpuLines, MaxEntries)},
        d \in {<<>>, <<"GPU card0", "GPU card1">>},
        x \in {None, "1920x1080"}, b \in BOOLEAN, v \in BOOLEAN,
        vz \in Virtualizations}
    \cup
    {[unit |-> "platform", platform |-> "windows", wmi_conn |-> c, wmi |-> w, ps |-> q] :
        c \in BOOLEAN,
        w \in [Range(WmiFacts) -> BOOLEAN], q \in [Range(WmiFacts) -> BOOLEAN]}

UnitEnvs == CpuEnvs \cup NetworkEnvs \cup SessionEnvs \cup PlatformEnvs

\* The variables of collect_with_mode before it is called, with the mode and
\* the environment of a run that starts at pc = p.
Idle(m, e, p) ==
    /\ mode = m
    /\ env = e
    /\ pc = p
    /\ spawned = 0
    /\ th = [c \in Collectors |-> "idle"]
    /\ starts = [c \in Collectors |-> 0]
    /\ joined = 0
    /\ got = [c \in Collectors |-> Empty]
    /\ closurePanic = None
    /\ result = NoResult
    /\ snapshot = NoSnapshot
    /\ divs = {}
    /\ rendered = FALSE
    /\ exitCode = -1
    /\ events = <<>>
    /\ out = None

\* The body of one collector thread: its effects and the value it returns.
Ran(r) ==
    /\ pc = "unit"
    /\ events' = r.events
    /\ out' = r.value
    /\ pc' = "unit_done"
    /\ UNCHANGED <<mode, env, spawned, th, starts, joined, got, closurePanic,
                   result, snapshot, divs, rendered, exitCode>>

CpuCollect == env.unit = "cpu" /\ Ran(cpu_collect(mode, env))

NetworkCollect == env.unit = "network" /\ Ran(collect_network_info(env))

SessionCollect == env.unit = "session" /\ Ran(session_collect(mode, env))

PlatformCollect == env.unit = "platform" /\ Ran(platform_collect(mode, env))

InitUnit == \E m \in Modes, e \in UnitEnvs : Idle(m, e, "unit")

NextUnit ==
    \/ CpuCollect
    \/ NetworkCollect
    \/ SessionCollect
    \/ PlatformCollect

\* Each collector of collect_with_mode run on its own, on every platform,
\* against every outcome of its probes.
SpecUnit == InitUnit /\ [][NextUnit]_vars

\* ------------------------------------------------------- the DNS chains

\* get_dns_servers_macos: the "nameserver[n] :" addresses of `scutil --dns`,
\* in one loop that is left at 5 entries.
get_dns_servers_macos(scutil) ==
    IF scutil = Failed THEN <<>> ELSE push_servers(<<>>, scutil[1])

\* The `for line in stdout.lines()` loop over the output of `ipconfig /all`:
\* a line gives at most one address (lines[i] is Failed when it gives none),
\* and the loop is left after a line once the list has 5 entries.
RECURSIVE push_ipconfig(_, _)
push_ipconfig(servers, lines) ==
    IF lines = <<>> THEN servers
    ELSE LET l == Head(lines)
             pushed == IF l # Failed /\ l[1] \notin Range(servers)
                       THEN Append(servers, l[1]) ELSE servers
         IN  IF Len(pushed) >= DnsCap THEN pushed
             ELSE push_ipconfig(pushed, Tail(lines))

\* get_dns_servers_windows: the addresses PowerShell prints, one a line, and
\* when that gives none, those of `ipconfig /all`.
get_dns_servers_windows(ps, ipconfig) ==
    LET first == IF ps = Failed THEN <<>> ELSE push_servers(<<>>, ps[1])
    IN  IF first # <<>> THEN first
        ELSE IF ipconfig = Failed THEN <<>>
        ELSE push_ipconfig(<<>>, ipconfig[1])

\* The DNS half of get_network_info_wmi: the DNSServerSearchOrder of every
\* adapter the WMI query returns (the inner break leaves the adapter, not the
\* loop over the adapters); PowerShell when the query fails or gives neither
\* a machine IP (ip_found) nor a DNS server.
get_network_info_wmi(adapters, ip_found, ps) ==
    LET dns_servers == IF adapters = Failed THEN <<>>
                       ELSE push_lines(<<>>, adapters[1])
    IN  IF adapters # Failed /\ (ip_found \/ dns_servers # <<>>) THEN dns_servers
        ELSE IF ps = Failed THEN <<>>
        ELSE push_servers(<<>>, ps[1])

\* Seven distinct server addresses, as a probe may list them.
Addresses ==
    <<"10.0.0.1", "10.0.0.2", "10.0.0.3", "10.0.0.4", "10.0.0.5", "10.0.0.6",
      "10.0.0.7">>

\* The address lists one line, one file or one adapter may give: every run
\* of consecutive Addresses (the empty one too), and two with repetitions.
AddressRuns ==
    {SubSeq(Addresses, a, b) : a, b \in 1..Len(Addresses)}
    \cup {<<"10.0.0.1", "10.0.0.1", "10.0.0.2">>,
          <<"10.0.0.2", "10.0.0.1", "10.0.0.2">>}

\* What a probe that yields address lists may give.
Listing(S) == {Failed} \cup {Some(l) : l \in S}

\* The probe outcomes of each DNS chain.  A fallback is consulted only when
\* the method before it gave no address.
DnsEnvs ==
    {[chain |-> "linux", resolv |-> r, resolvectl |-> Failed] :
        r \in Listing(AddressRuns \ {<<>>})}
    \cup
    {[chain |-> "linux", resolv |-> r, resolvectl |-> rc] :
        r \in {Failed, Some(<<>>)}, rc \in Listing(SeqUpTo(AddressRuns, 2))}
    \cup
    {[chain |-> "macos", scutil |-> sc] : sc \in Listing(AddressRuns)}
    \cup
    {[chain |-> "windows", ps |-> q, ipconfig |-> Failed] :
        q \in Listing(AddressRuns \ {<<>>})}
    \cup
    {[chain |-> "windows", ps |-> q, ipconfig |-> ic] :
        q \in {Failed, Some(<<>>)},
        ic \in Listing({[i \in 1..Len(l) |-> Some(l[i])] : l \in AddressRuns}
                       \cup {<<Failed, Some("10.0.0.1"), Failed>>})}
    \cup
    {[chain |-> "wmi", adapters |-> ad, ip_found |-> f, ps |-> q] :
        ad \in Listing(SeqUpTo(AddressRuns, 2)), f \in BOOLEAN,
        q \in {Failed, Some(Addresses)}}

\* One DNS chain run to its end: out is the dns_servers list it returns.
DnsRan(list) ==
    /\ pc = "dns"
    /\ out' = list
    /\ pc' = "dns_done"
    /\ UNCHANGED <<mode, env, spawned, th, starts, joined, got, closurePanic,
                   result, snapshot, divs, rendered, exitCode, events>>

DnsLinux ==
    /\ env.chain = "linux"
    /\ DnsRan(get_dns_servers_linux(env.resolv, env.resolvectl).value)

DnsMacos == env.chain = "macos" /\ DnsRan(get_dns_servers_macos(env.scutil))

DnsWindows ==
    /\ env.chain = "windows"
    /\ DnsRan(get_dns_servers_windows(env.ps, env.ipconfig))

DnsWmi ==
    /\ env.chain = "wmi"
    /\ DnsRan(get_network_info_wmi(env.adapters, env.ip_found, env.ps))

InitDns == \E e \in DnsEnvs : Idle("Full", e, "dns")

NextDns ==
    \/ DnsLinux
    \/ DnsMacos
    \/ DnsWindows
    \/ DnsWmi

\* Every DNS chain against probe outputs that list up to seven servers.
SpecDns == InitDns /\ [][NextDns]_vars

\* ------------------------------------------------------------ the bar graph

\* f64::clamp(0.0, 100.0)
clamp(p) == IF p < 0 THEN 0 ELSE IF p > 100 THEN 100 ELSE p

\* f64::round of the non-negative quotient n/d: to the nearest integer, a
\* half away from zero.
round(n, d) == (2 * n + d) \div (2 * d)

\* str::repeat
repeat(ch, n) == [i \in 1..n |-> ch]

\* A variant of render_bar that truncates instead of rounding.
render_bar_truncating(pct, width, filled_char, empty_char) ==
    LET filled_count == (clamp(pct) * width) \div 100
        empty_count == saturating_sub(width, filled_count)
    IN  repeat(filled_char, filled_count) \o repeat(empty_char, empty_count)

\* render_bar, lines 13-23; the quotient is computed exactly.

render_bar(pct, width, filled_char, empty_char) ==
    LET filled_count == round(clamp(pct) * width, 100)
        empty_count == saturating_sub(width, filled_count)
    IN  repeat(filled_char, filled_count) \o repeat(empty_char, empty_count)

\* render_bar_ascii
render_bar_ascii(pct, width) == render_bar(pct, width, "#", ".")

\* The percentages a bar is rendered for: below, at and above the ends of the
\* range, and values whose product with the width falls on and around a half.
Percents == {-50, -1, 0, 1, 10, 25, 33, 49, 50, 51, 75, 99, 100, 101, 150}

RenderBar ==
    /\ pc = "bar"
    /\ out' = render_bar_ascii(env.percent, env.width)
    /\ pc' = "bar_done"
    /\ UNCHANGED <<mode, env, spawned, th, starts, joined, got, closurePanic,
                   result, snapshot, divs, rendered, exitCode, events>>

InitBar ==
    \E m \in Modes, p \in Percents, w \in 0..MaxWidth :
        Idle(m, [percent |-> p, width |-> w], "bar")

NextBar == RenderBar

\* render_bar applied to every percentage of Percents and every width up to
\* MaxWidth.
SpecBar == InitBar /\ [][NextBar]_vars

\* ---------------------------------------------------------------- the table

\* config.rs: the narrowest label and data columns, and the widest data
\* column; generate_table's `let label_width = 12`.
MIN_LABEL_WIDTH == 5

MIN_DATA_WIDTH == 20

MAX_DATA_WIDTH == 32

LabelWidth == 12

\* BoxChars::ascii(): vertical, horizontal, and the corner and junction
\* character.
Vertical == "|"

Horizontal == "-"

Corner == "+"

\* TableRenderer::new: total_width
total_width(label_width, data_width) == label_width + data_width + 7

\* s.chars().take(n)
take(s, n) == SubSeq(s, 1, Min(n, Len(s)))

\* A variant of fit_string that keeps width characters before the ellipsis.
fit_string_overlong(s, width) ==
    IF Len(s) > width
    THEN IF width <= 3 THEN take(s, width)
         ELSE take(s, width) \o repeat(".", 3)
    ELSE s \o repeat(" ", width - Len(s))

\* TableRenderer::fit_string: s cut to width - 3 characters and "..." when it
\* is longer than width (cut to width when width <= 3), else padded with
\* spaces to width.
fit_string(s, width) ==
    IF Len(s) > width
    THEN IF width <= 3 THEN take(s, width)
         ELSE take(s, width - 3) \o repeat(".", 3)
    ELSE s \o repeat(" ", width - Len(s))

\* TableRenderer::render_row, without the newline.
render_row(label, value, label_width, data_width) ==
    <<Vertical, " ">> \o fit_string(label, label_width) \o <<" ", Vertical, " ">>
    \o fit_string(value, data_width) \o <<" ", Vertical>>

\* TableRenderer::render_centered, without the newline.
render_centered(text, label_width, data_width) ==
    LET text_len == Len(text)
        inner_width == total_width(label_width, data_width) - 2
        padding == IF text_len >= inner_width THEN 0
                   ELSE (inner_width - text_len) \div 2
        extra == IF text_len >= inner_width THEN 0
                 ELSE (inner_width - text_len) % 2
    IN  <<Vertical>> \o repeat(" ", padding)
        \o (IF text_len > inner_width
            THEN take(text, saturating_sub(inner_width, 3)) \o repeat(".", 3)
            ELSE text)
        \o repeat(" ", padding + extra) \o <<Vertical>>

\* render_top_header and render_header_bottom, without the newline.
render_top_header(label_width, data_width) ==
    <<Corner>> \o repeat(Corner, total_width(label_width, data_width) - 2)
    \o <<Corner>>

\* render_top_divider, render_middle_divider, render_bottom_divider and
\* render_footer, without the newline.
render_divider(label_width, data_width) ==
    <<Corner>> \o repeat(Horizontal, label_width + 2) \o <<Corner>>
    \o repeat(Horizontal, data_width + 2) \o <<Corner>>

\* The column widths: those of generate_table, and the narrowest of config.rs.
Widths == {<<LabelWidth, MAX_DATA_WIDTH>>, <<MIN_LABEL_WIDTH, MIN_DATA_WIDTH>>}

\* A text of n characters.
Text(n) == repeat("x", n)

\* The lines of a table and the lengths of their texts.
TableEnvs ==
    {[line |-> "row", widths |-> w, label |-> Text(a), value |-> Text(b)] :
        w \in Widths, a \in 0..MaxTextLen, b \in 0..MaxTextLen}
    \cup {[line |-> "centered", widths |-> w, text |-> Text(a)] :
            w \in Widths, a \in 0..MaxTextLen}
    \cup {[line |-> l, widths |-> w] : l \in {"header", "divider"}, w \in Widths}

\* One line of the table rendered: out is the line.
Rendered(line) ==
    /\ pc = "table"
    /\ out' = line
    /\ pc' = "table_done"
    /\ UNCHANGED <<mode, env, spawned, th, starts, joined, got, closurePanic,
                   result, snapshot, divs, rendered, exitCode, events>>

RenderRow ==
    /\ env.line = "row"
    /\ Rendered(render_row(env.label, env.value, env.widths[1], env.widths[2]))

RenderCentered ==
    /\ env.line = "centered"
    /\ Rendered(render_centered(env.text, env.widths[1], env.widths[2]))

RenderHeader ==
    /\ env.line = "header"
    /\ Rendered(render_top_header(env.widths[1], env.widths[2]))

RenderDivider ==
    /\ env.line = "divider"
    /\ Rendered(render_divider(env.widths[1], env.widths[2]))

InitTable == \E e \in TableEnvs : Idle("Full", e, "table")

NextTable ==
    \/ RenderRow
    \/ RenderCentered
    \/ RenderHeader
    \/ RenderDivider

\* Every kind of line of the table, for texts shorter and longer than its
\* columns.
SpecTable == InitTable /\ [][NextTable]_vars

\* --------------------------------------------------------------- the report

\* TableRenderer::render_row(label, data)
Row(label, data) == [label |-> label, data |-> data]

\* `if let Some(ref v) = field { render_row(label, v) }`
RowIfSome(label, v) == IF v # None THEN <<Row(label, v)>> ELSE <<>>

\* `info.dns_servers.iter().take(5)`
MaxDnsRows == 5

DnsLabels == <<"DNS  IP 1", "DNS  IP 2", "DNS  IP 3", "DNS  IP 4", "DNS  IP 5">>

GpuLabels == <<"GPU 1", "GPU 2", "GPU 3">>

\* The OS and network sections of generate_table, lines 39-63.
network_rows(info) ==
    <<Row("OS", "os"), Row("KERNEL", "kernel"), Row("ARCH", "arch"),
      Row("HOSTNAME", "hostname")>>
    \o RowIfSome("MACHINE IP", info.machine_ip)
    \o <<Row("CLIENT  IP",
             IF info.client_ip # None THEN info.client_ip ELSE "Not connected")>>
    \o [i \in 1..Min(Len(info.dns_servers), MaxDnsRows) |->
            Row(DnsLabels[i], info.dns_servers[i])]
    \o <<Row("USER", "username")>>

\* SystemInfo::cores_str
cores_str(info) ==
    IF info.sockets # None THEN "n vCPU(s) / n Socket(s)" ELSE "n vCPU(s)"

\* The CPU section of generate_table, lines 65-103.
cpu_rows(info) ==
    <<Row("PROCESSOR", "processor"), Row("CORES", cores_str(info))>>
    \o (IF Len(info.gpus) = 0 THEN <<>>
        ELSE IF Len(info.gpus) = 1 THEN <<Row("GPU", info.gpus[1])>>
        ELSE IF Len(info.gpus) <= 3
        THEN [i \in 1..Len(info.gpus) |-> Row(GpuLabels[i], info.gpus[i])]
        ELSE <<Row("GPUs", "joined")>>)
    \o RowIfSome("HYPERVISOR", info.hypervisor)
    \o <<Row("CPU FREQ", "freq")>>
    \o (IF info.load_1m # None /\ info.load_5m # None /\ info.load_15m # None
        THEN <<Row("LOAD  1m", "bar"), Row("LOAD  5m", "bar"), Row("LOAD 15m", "bar")>>
        ELSE <<>>)

\* The disk and memory sections of generate_table, lines 105-121.
disk_memory_rows(info) ==
    <<Row("VOLUME", "disk_usage"), Row("DISK USAGE", "bar")>>
    \o RowIfSome("ZFS HEALTH", info.zfs_health)
    \o <<Row("MEMORY", "memory_usage"), Row("USAGE", "bar")>>

\* A variant of session_rows that prints a LAST LOGIN row for a missing
\* last login.
session_rows_placeholder(info) ==
    <<Row("LAST LOGIN", IF info.last_login # None THEN info.last_login ELSE "Never")>>
    \o (IF info.last_login # None THEN RowIfSome("", info.last_login_ip) ELSE <<>>)
    \o <<Row("UPTIME", "uptime")>>
    \o RowIfSome("SHELL", info.shell)
    \o RowIfSome("TERMINAL", info.terminal)
    \o RowIfSome("LOCALE", info.locale)
    \o RowIfSome("BATTERY", info.battery)

\* The session section of generate_table, lines 123-145.
session_rows(info) ==
    (IF info.last_login # None
     THEN <<Row("LAST LOGIN", info.last_login)>> \o RowIfSome("", info.last_login_ip)
     ELSE <<>>)
    \o <<Row("UPTIME", "uptime")>>
    \o RowIfSome("SHELL", info.shell)
    \o RowIfSome("TERMINAL", info.terminal)
    \o RowIfSome("LOCALE", info.locale)
    \o RowIfSome("BATTERY", info.battery)

\* generate_table: the rows of the table, top to bottom.  The data of a row
\* that no claim reads is the name of what is printed there.
generate_table(info) ==
    network_rows(info) \o cpu_rows(info) \o disk_memory_rows(info)
    \o session_rows(info)

\* opt_str, opt_f64, opt_usize: the JSON text of an optional value, quoted
\* when it is a string.
JsonNull == [quoted |-> FALSE, text |-> "null"]

opt_str(v) == IF v # None THEN [quoted |-> TRUE, text |-> v] ELSE JsonNull

opt_num(v) == IF v # None THEN [quoted |-> FALSE, text |-> v] ELSE JsonNull

\* generate_json: the optional members of the JSON object.
generate_json(info) ==
    [machine_ip |-> opt_str(info.machine_ip),
     client_ip |-> opt_str(info.client_ip),
     sockets |-> opt_num(info.sockets),
     hypervisor |-> opt_str(info.hypervisor),
     load_1m |-> opt_num(info.load_1m),
     load_5m |-> opt_num(info.load_5m),
     load_15m |-> opt_num(info.load_15m),
     last_login |-> opt_str(info.last_login),
     shell |-> opt_str(info.shell),
     terminal |-> opt_str(info.terminal),
     locale |-> opt_str(info.locale),
     battery |-> opt_str(info.battery)]

\* The SystemInfo values collect_with_mode returns in mode m, as far as the
\* report reads them; an optional field holds None or the text its value is
\* printed as.  In Full mode sockets, the load averages and last_login are
\* always Some; the three load averages are Some together.
SystemInfos(m) ==
    {[present |-> TRUE, mode |-> m,
      machine_ip |-> mip, client_ip |-> cip, dns_servers |-> dns,
      sockets |-> so, hypervisor |-> hv,
      load_1m |-> ld, load_5m |-> ld, load_15m |-> ld, gpus |-> gp,
      zfs_health |-> None,
      last_login |-> ll[1], last_login_ip |-> ll[2],
      shell |-> sh, terminal |-> te, locale |-> lo, battery |-> ba] :
        mip \in {None, "192.168.1.7"}, cip \in {None, "203.0.113.9"},
        dns \in {<<>>, <<"10.0.0.1", "10.0.0.2">>},
        so \in IF m = "Full" THEN {"2"} ELSE {None},
        hv \in {None, "KVM", BareMetal},
        ld \in IF m = "Full" THEN {"50.00"} ELSE {None, "50.00"},
        gp \in {<<>>, <<"Intel UHD">>, <<"Intel UHD", "NVIDIA GA102">>,
                <<"Intel UHD", "NVIDIA GA102", "NVIDIA GA102", "NVIDIA GA102">>},
        ll \in {<<"Mon Nov 2", None>>, <<"Mon Nov 2", "203.0.113.9">>,
                <<Unavailable, None>>}
               \cup (IF m = "Full" THEN {} ELSE {<<None, None>>}),
        sh \in {None, "bash 5.2"}, te \in {None, "xterm"},
        lo \in {None, "en_US"}, ba \in {None, "85% (Charging)"}}

OutputFormats == {"Table", "Json"}

\* The variables at the call of report::generate in run_report:
\* collect_with_mode has returned Ok(info).
Collected(m, info, fmt) ==
    /\ mode = m
    /\ env = [format |-> fmt]
    /\ pc = "report"
    /\ spawned = Len(Order)
    /\ th = [c \in Collectors |-> "done"]
    /\ starts = [c \in Collectors |-> 1]
    /\ joined = Len(Order)
    /\ got = [c \in Collectors |-> Empty]
    /\ closurePanic = None
    /\ result = [kind |-> "Ok", by |-> None]
    /\ snapshot = info
    /\ divs = {}
    /\ rendered = FALSE
    /\ exitCode = -1
    /\ events = <<>>
    /\ out = None

\* report::generate with OutputFormat::Table
GenerateTable ==
    /\ pc = "report"
    /\ env.format = "Table"
    /\ out' = generate_table(snapshot)
    /\ rendered' = TRUE
    /\ pc' = "report_done"
    /\ UNCHANGED <<mode, env, spawned, th, starts, joined, got, closurePanic,
                   result, snapshot, divs, exitCode, events>>

\* report::generate with OutputFormat::Json
GenerateJson ==
    /\ pc = "report"
    /\ env.format = "Json"
    /\ out' = generate_json(snapshot)
    /\ rendered' = TRUE
    /\ pc' = "report_done"
    /\ UNCHANGED <<mode, env, spawned, th, starts, joined, got, closurePanic,
                   result, snapshot, divs, exitCode, events>>

InitReport ==
    \E m \in Modes, fmt \in OutputFormats :
        \E info \in SystemInfos(m) : Collected(m, info, fmt)

NextReport ==
    \/ GenerateTable
    \/ GenerateJson

\* report::generate applied to every SystemInfo of SystemInfos.
SpecReport == InitReport /\ [][NextReport]_vars

\* ------------------------------------------------------ the shell profile

\* The operating systems install and uninstall are compiled for.
InstallPlatforms == {"unix", "windows"}

\* MARKER_START and MARKER_END
MARKER_START == "# TR-300 Machine Report"

MARKER_END == "# End TR-300"

\* SHELL_ADDITIONS and POWERSHELL_ADDITIONS, line by line.
SHELL_ADDITIONS ==
    <<MARKER_START, "alias report='tr300'", "", "# Auto-run on interactive shell",
      "if [[ $- == *i* ]]; then", "    tr300", "fi", MARKER_END>>

POWERSHELL_ADDITIONS ==
    <<MARKER_START, "Set-Alias -Name report -Value tr300", "",
      "# Auto-run on interactive shell", "if ($Host.Name -eq 'ConsoleHost') {",
      "    tr300", "}", MARKER_END>>

Additions(platform) ==
    IF platform = "unix" THEN SHELL_ADDITIONS ELSE POWERSHELL_ADDITIONS

\* The legacy markers that start a block ending at the next blank line
\* (TR200_MARKERS on Unix, TR200_NPM on Windows), the markers of a delimited
\* TR-200 block (Windows), and the markers that start an if block
\* (TR100_MARKERS).
Tr200Markers(platform) ==
    IF platform = "unix"
    THEN <<"# TR-200 Machine Report configuration",
           "# TR-200 Machine Report - run on login",
           "# TR-200 Machine Report - run on bash login",
           "# TR-200 Machine Report (npm) - auto-run">>
    ELSE <<"# TR-200 Machine Report (npm) - auto-run">>

TR200_START == "# >>> TR-200 Machine Report configuration >>>"

TR200_END == "# <<< TR-200 Machine Report configuration <<<"

Tr100Markers(platform) ==
    IF platform = "unix"
    THEN <<"# Run Machine Report only when in interactive mode">>
    ELSE <<"# Run Machine Report only when in interactive mode",
           "# TR-100 Machine Report">>

\* The lines of a user's own, as the profiles of the model have them: a
\* setting, a command with a space at its end, and the two ends of an if
\* block of each shell.
UserLine == "export EDITOR=vi"

SpacedLine == "echo hi "

IfLine(platform) == IF platform = "unix" THEN "if [ -t 1 ]; then" ELSE "if ($x) {"

EndIfLine(platform) == IF platform = "unix" THEN "fi" ELSE "}"

\* A line of the user's that quotes the start marker.
QuotedLine == "echo '# TR-300 Machine Report'"

\* line.contains(marker): a line of the model holds a marker when it is the
\* marker, or the user's line that quotes it.
Contains(line, marker) ==
    \/ line = marker
    \/ line = QuotedLine /\ marker = MARKER_START

\* line.trim().is_empty()
IsBlank(line) == line \in {"", " "}

\* str::trim_end of one line
RTrim(line) ==
    IF line = SpacedLine THEN "echo hi" ELSE IF line = " " THEN "" ELSE line

\* A file content: the lines str::lines gives, and whether the last one ends
\* in a line break.  The empty string has no line.
Content(lines, nl) == [lines |-> lines, nl |-> nl]

EmptyContent == Content(<<>>, FALSE)

\* `lines.join(sep) + sep`
JoinLn(lines) == IF lines = <<>> THEN Content(<<"">>, TRUE) ELSE Content(lines, TRUE)

\* str::trim_end of a content
RECURSIVE DropBlankTail(_)
DropBlankTail(lines) ==
    IF lines = <<>> THEN <<>>
    ELSE IF IsBlank(lines[Len(lines)])
    THEN DropBlankTail(SubSeq(lines, 1, Len(lines) - 1))
    ELSE lines

trim_end(content) ==
    LET kept == DropBlankTail(content.lines)
    IN  IF kept = <<>> THEN EmptyContent
        ELSE Content([kept EXCEPT ![Len(kept)] = RTrim(kept[Len(kept)])], FALSE)

\* remove_delimited_block: the loop over the lines, in_block being its flag.
RECURSIVE remove_delimited_from(_, _, _, _)
remove_delimited_from(lines, start, end, in_block) ==
    IF lines = <<>> THEN <<>>
    ELSE IF Contains(Head(lines), start)
    THEN remove_delimited_from(Tail(lines), start, end, TRUE)
    ELSE IF Contains(Head(lines), end)
    THEN remove_delimited_from(Tail(lines), start, end, FALSE)
    ELSE (IF in_block THEN <<>> ELSE <<Head(lines)>>)
         \o remove_delimited_from(Tail(lines), start, end, in_block)

remove_delimited_block(lines, start, end) ==
    remove_delimited_from(lines, start, end, FALSE)

\* remove_marker_block: the loop over the lines, with skip_until_blank.
RECURSIVE remove_marker_from(_, _, _)
remove_marker_from(lines, marker, skip_until_blank) ==
    IF lines = <<>> THEN <<>>
    ELSE IF Contains(Head(lines), marker)
    THEN remove_marker_from(Tail(lines), marker, TRUE)
    ELSE IF skip_until_blank
    THEN remove_marker_from(Tail(lines), marker, ~IsBlank(Head(lines)))
    ELSE <<Head(lines)>> \o remove_marker_from(Tail(lines), marker, FALSE)

remove_marker_block(lines, marker) == remove_marker_from(lines, marker, FALSE)

\* Unix remove_if_fi_block: the loop over the lines, with skip_if_block and
\* if_depth.  A skipped line that starts with "if " opens a level, a "fi"
\* closes one, and the skipping ends when the last level is closed.
IsIf(line) == line \in {"if [ -t 1 ]; then", "if [[ $- == *i* ]]; then"}

IsFi(line) == line = "fi"

RECURSIVE remove_if_fi_from(_, _, _, _)
remove_if_fi_from(lines, marker, skip_if_block, if_depth) ==
    IF lines = <<>> THEN <<>>
    ELSE IF Contains(Head(lines), marker)
    THEN remove_if_fi_from(Tail(lines), marker, TRUE, if_depth)
    ELSE IF skip_if_block
    THEN IF IsIf(Head(lines))
         THEN remove_if_fi_from(Tail(lines), marker, TRUE, if_depth + 1)
         ELSE IF IsFi(Head(lines)) /\ if_depth > 0
         THEN remove_if_fi_from(Tail(lines), marker, if_depth - 1 # 0, if_depth - 1)
         ELSE remove_if_fi_from(Tail(lines), marker, TRUE, if_depth)
    ELSE <<Head(lines)>> \o remove_if_fi_from(Tail(lines), marker, FALSE, if_depth)

remove_if_fi_block(lines, marker) == remove_if_fi_from(lines, marker, FALSE, 0)

\* Windows remove_if_block: the same loop with the braces of each skipped
\* line counted, character by character.
Braces(line) ==
    IF line \in {"if ($x) {", "if ($Host.Name -eq 'ConsoleHost') {"} THEN <<"{">>
    ELSE IF line = "}" THEN <<"}">>
    ELSE <<>>

RECURSIVE count_braces(_, _, _)
count_braces(chars, skip_if_block, brace_depth) ==
    IF chars = <<>> THEN [skip |-> skip_if_block, depth |-> brace_depth]
    ELSE IF Head(chars) = "{"
    THEN count_braces(Tail(chars), skip_if_block, brace_depth + 1)
    ELSE IF brace_depth > 0
    THEN count_braces(Tail(chars), skip_if_block /\ brace_depth - 1 # 0,
                      brace_depth - 1)
    ELSE count_braces(Tail(chars), skip_if_block, brace_depth)

RECURSIVE remove_if_from(_, _, _, _)
remove_if_from(lines, marker, skip_if_block, brace_depth) ==
    IF lines = <<>> THEN <<>>
    ELSE IF Contains(Head(lines), marker)
    THEN remove_if_from(Tail(lines), marker, TRUE, brace_depth)
    ELSE IF skip_if_block
    THEN LET c == count_braces(Braces(Head(lines)), TRUE, brace_depth)
         IN  remove_if_from(Tail(lines), marker, c.skip, c.depth)
    ELSE <<Head(lines)>> \o remove_if_from(Tail(lines), marker, FALSE, brace_depth)

remove_if_block(lines, marker) == remove_if_from(lines, marker, FALSE, 0)

\* `for marker in MARKERS { lines = remove(&lines, marker) }`
RECURSIVE remove_each(_, _, _)
remove_each(lines, markers, kind) ==
    IF markers = <<>> THEN lines
    ELSE remove_each(IF kind = "marker" THEN remove_marker_block(lines, Head(markers))
                     ELSE IF kind = "if_fi" THEN remove_if_fi_block(lines, Head(markers))
                     ELSE remove_if_block(lines, Head(markers)),
                     Tail(markers), kind)

\* "Clean up multiple consecutive blank lines"
RECURSIVE collapse_blanks(_, _)
collapse_blanks(lines, prev_blank) ==
    IF lines = <<>> THEN <<>>
    ELSE LET is_blank == IsBlank(Head(lines))
         IN  IF is_blank /\ prev_blank THEN collapse_blanks(Tail(lines), prev_blank)
             ELSE <<Head(lines)>> \o collapse_blanks(Tail(lines), is_blank)

\* A variant of remove_legacy_blocks that leaves an existing TR-300 block in
\* place.
remove_legacy_blocks_keeps_tr300(platform, content) ==
    LET l1 == content.lines
        l2 == IF platform = "unix" THEN l1
              ELSE remove_delimited_block(l1, TR200_START, TR200_END)
        l3 == remove_each(l2, Tr200Markers(platform), "marker")
        l4 == remove_each(l3, Tr100Markers(platform),
                          IF platform = "unix" THEN "if_fi" ELSE "if")
        kept == DropBlankTail(collapse_blanks(l4, FALSE))
    IN  IF kept = <<>> THEN EmptyContent ELSE Content(kept, TRUE)

\* remove_legacy_blocks (unix.rs and windows.rs): the TR-300 block, the
\* TR-200 blocks and the TR-100 blocks are removed, runs of blank lines
\* become one, trailing blank lines go, and the lines are joined again.
remove_legacy_blocks(platform, content) ==
    LET l1 == remove_delimited_block(content.lines, MARKER_START, MARKER_END)
        l2 == IF platform = "unix" THEN l1
              ELSE remove_delimited_block(l1, TR200_START, TR200_END)
        l3 == remove_each(l2, Tr200Markers(platform), "marker")
        l4 == remove_each(l3, Tr100Markers(platform),
                          IF platform = "unix" THEN "if_fi" ELSE "if")
        kept == DropBlankTail(collapse_blanks(l4, FALSE))
    IN  IF kept = <<>> THEN EmptyContent ELSE Content(kept, TRUE)

\* Unix update_shell_profile and the writing half of Windows install: the
\* content written to the profile.  Unix ends it with a line break, Windows
\* does not.
update_shell_profile(platform, content) ==
    LET cleaned_content == remove_legacy_blocks(platform, content)
        unix == platform = "unix"
    IN  IF \A i \in 1..Len(cleaned_content.lines) : IsBlank(cleaned_content.lines[i])
        THEN Content(Additions(platform), unix)
        ELSE Content(trim_end(cleaned_content).lines \o <<"">> \o Additions(platform),
                     unix)

\* Unix remove_from_profile and Windows uninstall on an existing profile: a
\* content without the start marker is not written; otherwise the lines
\* outside the blocks, without the empty lines at the end, are written.
remove_from_profile(platform, content) ==
    LET has(m) == \E i \in 1..Len(content.lines) : Contains(content.lines[i], m)
        RECURSIVE drop_empty_tail(_)
        drop_empty_tail(lines) ==
            IF lines # <<>> /\ lines[Len(lines)] = ""
            THEN drop_empty_tail(SubSeq(lines, 1, Len(lines) - 1))
            ELSE lines
        new_lines ==
            drop_empty_tail(remove_delimited_block(content.lines, MARKER_START,
                                                   MARKER_END))
    IN  IF ~has(MARKER_START) THEN [written |-> FALSE, content |-> content]
        ELSE [written |-> TRUE,
              content |-> IF platform = "windows" /\ new_lines = <<>>
                          THEN EmptyContent
                          ELSE JoinLn(new_lines)]

\* The pieces the profiles of the model are made of: nothing, a line of the
\* user's, a blank line, a marker on its own, a whole TR-300 block, a legacy
\* marker, one end of an if block.
Segments(platform) ==
    {<<>>, <<UserLine>>, <<SpacedLine>>, <<QuotedLine>>, <<"">>, <<" ">>,
     <<MARKER_START>>, <<MARKER_END>>, Additions(platform),
     <<Tr200Markers(platform)[1]>>, <<Tr100Markers(platform)[1]>>,
     <<IfLine(platform)>>, <<EndIfLine(platform)>>}
    \cup (IF platform = "windows" THEN {<<TR200_START>>, <<TR200_END>>} ELSE {})

\* The profiles install and uninstall are run on: three pieces and an end.
Profiles(platform) ==
    {a \o b \o c \o d : a, b, c \in Segments(platform),
                        d \in {<<>>, <<UserLine>>, <<"">>}}

\* The variables before install or uninstall is called on a profile that
\* holds the given lines: out is the content of the profile, events the
\* calls made so far.
ProfileStart(platform, lines) ==
    /\ mode = "Full"
    /\ env = [platform |-> platform]
    /\ pc = "profile"
    /\ spawned = 0
    /\ th = [c \in Collectors |-> "idle"]
    /\ starts = [c \in Collectors |-> 0]
    /\ joined = 0
    /\ got = [c \in Collectors |-> Empty]
    /\ closurePanic = None
    /\ result = NoResult
    /\ snapshot = NoSnapshot
    /\ divs = {}
    /\ rendered = FALSE
    /\ exitCode = -1
    /\ events = <<>>
    /\ out = Content(lines, lines # <<>>)

\* One call on the profile: what it was called on, and whether it wrote.
Call(op, before, written) == [op |-> op, before |-> before, written |-> written]

\* install, and install once more.
Install ==
    /\ pc \in {"profile", "installed"}
    /\ out' = update_shell_profile(env.platform, out)
    /\ events' = Append(events, Call("install", out, TRUE))
    /\ pc' = IF pc = "profile" THEN "installed" ELSE "reinstalled"
    /\ UNCHANGED <<mode, env, spawned, th, starts, joined, got, closurePanic,
                   result, snapshot, divs, rendered, exitCode>>

\* uninstall
Uninstall ==
    /\ pc = "profile"
    /\ LET r == remove_from_profile(env.platform, out)
       IN  /\ out' = r.content
           /\ events' = Append(events, Call("uninstall", out, r.written))
    /\ pc' = "uninstalled"
    /\ UNCHANGED <<mode, env, spawned, th, starts, joined, got, closurePanic,
                   result, snapshot, divs, rendered, exitCode>>

InitProfile ==
    \E p \in InstallPlatforms : \E l \in Profiles(p) : ProfileStart(p, l)

NextProfile ==
    \/ Install
    \/ Uninstall

\* install twice, or uninstall once, on every profile of Profiles.
SpecProfile == InitProfile /\ [][NextProfile]_vars

\* ------------------------------------------------------ the uninstall flow

\* The lines a user may type at the two prompts.
InputLines == {"0", "1", " 2 ", "x", "y", "YES", "n", ""}

\* str::trim and str::to_lowercase on those lines
Trim(line) == IF line = " 2 " THEN "2" ELSE line

ToLower(line) == IF line = "YES" THEN "yes" ELSE line

\* The standard input of one run: up to three lines, then the end of the
\* input ("eof": read_line returns Ok(0) and an empty line, again and again)
\* or a read error.
InputStreams ==
    {a \o b \o c : a, b, c \in {<<>>} \cup {<<l>> : l \in InputLines}}

\* One read_line: the line read, or what the end of the input gives.
read_line(input, end, pos) ==
    IF pos <= Len(input) THEN [err |-> FALSE, line |-> input[pos], pos |-> pos + 1]
    ELSE [err |-> end = "error", line |-> "", pos |-> pos]

\* The match of prompt_uninstall_option on a line: the option it returns, or
\* None when it prompts again.
choice_of(line) ==
    IF Trim(line) = "0" THEN "Cancel"
    ELSE IF Trim(line) = "1" THEN "ProfileOnly"
    ELSE IF Trim(line) = "2" THEN "Complete"
    ELSE None

\* The match of confirm_complete_uninstall on a line: "yes" for true, "no"
\* for false, None when it prompts again.
answer_of(line) ==
    IF ToLower(Trim(line)) \in {"y", "yes"} THEN "yes"
    ELSE IF ToLower(Trim(line)) \in {"n", "no", ""} THEN "no"
    ELSE None

\* The variables when run_uninstall is called.  env: the standard input,
\* whether find_binary_location finds the binary, whether the profile holds
\* the TR-300 block.  out: the next line to read, the option chosen, the
\* answer to the confirmation, and what has been done to profile and binary.
UninstallStart(e) ==
    /\ mode = "Full"
    /\ env = e
    /\ pc = "prompt"
    /\ spawned = 0
    /\ th = [c \in Collectors |-> "idle"]
    /\ starts = [c \in Collectors |-> 0]
    /\ joined = 0
    /\ got = [c \in Collectors |-> Empty]
    /\ closurePanic = None
    /\ result = NoResult
    /\ snapshot = NoSnapshot
    /\ divs = {}
    /\ rendered = FALSE
    /\ exitCode = -1
    /\ events = <<>>
    /\ out = [pos |-> 1, option |-> None, confirmed |-> None,
              profile_written |-> FALSE, binary_removed |-> FALSE]

UninstallFrame ==
    UNCHANGED <<mode, env, spawned, th, starts, joined, got, closurePanic,
                result, snapshot, divs, rendered, exitCode>>

\* One turn of the loop of prompt_uninstall_option: a read error returns
\* Cancel, a line that trims to 0, 1 or 2 returns its option, any other line
\* (the empty one of the end of the input too) prompts again.
PromptRead ==
    /\ pc = "prompt"
    /\ LET r == read_line(env.input, env.end, out.pos)
           option == IF r.err THEN "Cancel" ELSE choice_of(r.line)
       IN  /\ out' = [out EXCEPT !.pos = r.pos, !.option = option]
           /\ pc' = IF option # None THEN "chosen" ELSE "prompt"
           /\ events' = IF option # None THEN Append(events, Ev("option", option))
                        ELSE events
    /\ UninstallFrame

\* install::uninstall: the profile is written when it holds the block.
uninstall(o, e) == [o EXCEPT !.profile_written = e.profile]

\* uninstall_complete: uninstall, then the binary is removed when
\* find_binary_location finds it.
uninstall_complete(o, e) ==
    [uninstall(o, e) EXCEPT !.binary_removed = e.binary]

\* The match of run_uninstall on the option: Cancel returns, ProfileOnly
\* calls uninstall, Complete asks for the confirmation when the binary was
\* found and calls uninstall_complete at once when it was not.
Dispatch ==
    /\ pc = "chosen"
    /\ IF out.option = "Cancel" THEN out' = out /\ pc' = "done"
       ELSE IF out.option = "ProfileOnly"
       THEN out' = uninstall(out, env) /\ pc' = "done"
       ELSE IF env.binary THEN out' = out /\ pc' = "confirm"
       ELSE out' = uninstall_complete(out, env) /\ pc' = "done"
    /\ exitCode' = IF pc' = "done" THEN 0 ELSE exitCode
    /\ UNCHANGED <<mode, env, spawned, th, starts, joined, got, closurePanic,
                   result, snapshot, divs, rendered, events>>

\* One turn of the loop of confirm_complete_uninstall, and what run_uninstall
\* does with its answer: true calls uninstall_complete, false cancels.
ConfirmRead ==
    /\ pc = "confirm"
    /\ LET r == read_line(env.input, env.end, out.pos)
           answer == IF r.err THEN "no" ELSE answer_of(r.line)
           o == [out EXCEPT !.pos = r.pos, !.confirmed = answer]
       IN  /\ out' = IF answer = "yes" THEN uninstall_complete(o, env) ELSE o
           /\ pc' = IF answer # None THEN "done" ELSE "confirm"
           /\ exitCode' = IF answer # None THEN 0 ELSE exitCode
           /\ events' = IF answer # None THEN Append(events, Ev("confirmed", answer))
                        ELSE events
    /\ UNCHANGED <<mode, env, spawned, th, starts, joined, got, closurePanic,
                   result, snapshot, divs, rendered>>

InitUninstall ==
    \E i \in InputStreams, e \in {"eof", "error"}, b \in BOOLEAN, p \in BOOLEAN :
        UninstallStart([input |-> i, end |-> e, binary |-> b, profile |-> p])

NextUninstall ==
    \/ PromptRead
    \/ Dispatch
    \/ ConfirmRead

\* run_uninstall on every input stream; the process keeps running while it
\* has a step to take.
SpecUninstall ==
    InitUninstall /\ [][NextUninstall]_vars /\ WF_vars(NextUninstall)

\* ----------------------------------------------------------------- claims

\* The collectors the claims call mandatory and optional.
Mandatory == {"os", "cpu", "memory"}

Optional == {"disk", "network", "session", "platform"}

\* collect_with_mode has returned or unwound.
Returned == pc \in {"returned", "panicked", "exit"}

NoPanic == \A c \in Collectors : env.outcome[c] # "Panic"

\* C1: if the OS, CPU or memory collector returns an error, collect_with_mode
\* returns an error, no Snapshot is produced, the renderer is never invoked
\* and the process exits with a non-zero status.
C1_MandatoryErrorIsReturned ==
    (pc = "exit" /\ \E c \in Mandatory : env.outcome[c] = "Err")
        => /\ result.kind = "Err"
           /\ ~snapshot.present
           /\ ~rendered
           /\ exitCode # ExitOk

\* C2: if the disk, network or session collector returns an error while the
\* OS, CPU and memory collectors succeed, collect_with_mode returns Ok with a
\* Snapshot and the report is produced with exit status 0.
C2_OptionalErrorIsRecovered ==
    (/\ pc = "exit"
     /\ NoPanic
     /\ \A c \in Mandatory : env.outcome[c] = "Ok"
     /\ \E c \in {"disk", "network", "session"} : env.outcome[c] = "Err")
        => /\ result.kind = "Ok"
           /\ snapshot.present
           /\ rendered
           /\ exitCode = ExitOk

\* C3: a panic inside a collector never becomes a panic of collect_with_mode:
\* a panic of a mandatory collector gives an Err return, and a panic of an
\* optional collector, the others succeeding, still gives an Ok Snapshot.
C3_PanicIsCaptured ==
    Returned =>
        /\ result.kind # "Panic"
        /\ (\E c \in Mandatory : env.outcome[c] = "Panic") => result.kind = "Err"
        /\ (/\ \A c \in Mandatory : env.outcome[c] = "Ok"
            /\ \A c \in Optional : env.outcome[c] \in {"Ok", "Panic"})
               => result.kind = "Ok" /\ snapshot.present

\* C4: every collector is started exactly once, and collect_with_mode neither
\* starts aggregation nor returns (Ok, Err or by unwinding) until all seven
\* collector threads have terminated; none runs after it has returned.
C4_AllStartedOnceAllJoined ==
    /\ \A c \in Collectors : starts[c] <= 1
    /\ pc # "spawn" => \A c \in Collectors : starts[c] = 1
    /\ pc \in {"try", "aggregate", "returned", "panicked", "exit"}
          => \A c \in Collectors : th[c] = "done"

\* C4 witness: collect_with_mode has unwound from the panic of the first
\* collector joined, and all seven threads were started once and are done.
C4_Witness ==
    /\ pc = "panicked"
    /\ closurePanic = "os"
    /\ \A c \in Collectors : starts[c] = 1 /\ th[c] = "done"

\* The result fixed by the collectors' outputs alone: the panic of the first
\* panicking collector in join order, else the first Err in `?` order, else Ok.
ExpectedResult ==
    LET panics == {i \in 1..Len(Order) : env.outcome[Order[i]] = "Panic"}
        errs == {i \in 1..Len(TryOrder) : env.outcome[TryOrder[i]] = "Err"}
    IN  IF panics # {}
        THEN [kind |-> "Panic", by |-> Order[CHOOSE k \in panics : \A j \in panics : k <= j]]
        ELSE IF errs # {}
             THEN [kind |-> "Err", by |-> TryOrder[CHOOSE k \in errs : \A j \in errs : k <= j]]
             ELSE [kind |-> "Ok", by |-> None]

\* C5: for fixed outputs of the seven collectors and a fixed mode, the result
\* of collect_with_mode (which error, or the Snapshot with its derived
\* fields) is the same for every order in which the threads run and finish.
C5_ResultIndependentOfSchedule ==
    Returned =>
        /\ result = ExpectedResult
        /\ IF result.kind = "Ok"
           THEN snapshot = BuildSnapshot([c \in Collectors |-> Output(c, env)], mode).snap
           ELSE snapshot = NoSnapshot

\* C5 witness: two collectors failed, the one later in join order by a
\* panic, and the panic is what collect_with_mode ends with.
C5_Witness ==
    /\ pc = "exit"
    /\ env.outcome["cpu"] = "Err"
    /\ env.outcome["session"] = "Panic"
    /\ result = [kind |-> "Panic", by |-> "session"]

InRange(p) == p.den > 0 /\ 0 <= p.num /\ p.num <= 100 * p.den

IsZeroPercent(p) == p.den > 0 /\ p.num = 0

\* C6: in every Snapshot, 0 <= disk_percent <= 100 and 0 <= mem_percent <= 100,
\* for every output of the disk and memory collectors.
C6_PercentWithin0And100 ==
    snapshot.present =>
        /\ InRange(snapshot.disk_percent)
        /\ InRange(snapshot.mem_percent)

\* C7: disk_percent is 0 whenever disk_total_bytes is 0, mem_percent is 0
\* whenever mem_total_bytes is 0, and no division by zero is evaluated.
C7_ZeroTotalGivesZeroPercent ==
    /\ 0 \notin divs
    /\ snapshot.present =>
          /\ snapshot.disk_total_bytes = 0 => IsZeroPercent(snapshot.disk_percent)
          /\ snapshot.mem_total_bytes = 0 => IsZeroPercent(snapshot.mem_percent)

\* C7 witness: a Snapshot of an empty disk list and of a memory total of 0
\* with non-zero used memory.
C7_Witness ==
    /\ snapshot.present
    /\ got["disk"].disks = <<>>
    /\ snapshot.disk_total_bytes = 0
    /\ snapshot.mem_total_bytes = 0
    /\ snapshot.mem_used_bytes > 0

\* C8: in every Snapshot, disk_used_bytes <= disk_total_bytes and
\* mem_used_bytes <= mem_total_bytes.
C8_UsedAtMostTotal ==
    snapshot.present =>
        /\ snapshot.disk_used_bytes <= snapshot.disk_total_bytes
        /\ snapshot.mem_used_bytes <= snapshot.mem_total_bytes

\* The primary volume of the claim: mounted at "/" or on the drive letter C.
PrimaryVolume(d) ==
    \/ d.mount_point = <<"/">>
    \/ (Len(d.mount_point) >= 2 /\ d.mount_point[1] = "C" /\ d.mount_point[2] = ":")

DiskPair == <<snapshot.disk_used_bytes, snapshot.disk_total_bytes>>

\* C9: if some disk of the list is a primary volume, the disk pair of the
\* Snapshot is exactly the (used, total) of the first such disk, whatever
\* its position, the other disks and the removable flags.
C9_PrimaryVolumeWins ==
    snapshot.present =>
        LET disks == got["disk"].disks
            prim == {i \in 1..Len(disks) : PrimaryVolume(disks[i])}
        IN  \A i \in prim :
                (\A j \in prim : i <= j)
                    => DiskPair = <<disks[i].used_bytes, disks[i].total_bytes>>

\* C9 witness: the primary volume is the drive C, removable, second in the
\* list after a non-removable disk with other figures, and its pair is the
\* result.
C9_Witness ==
    /\ snapshot.present
    /\ Len(got["disk"].disks) = 2
    /\ ~PrimaryVolume(got["disk"].disks[1])
    /\ ~got["disk"].disks[1].is_removable
    /\ got["disk"].disks[2].mount_point = CDrive
    /\ got["disk"].disks[2].is_removable
    /\ got["disk"].disks[1].total_bytes # got["disk"].disks[2].total_bytes
    /\ DiskPair = <<got["disk"].disks[2].used_bytes, got["disk"].disks[2].total_bytes>>

\* The sum of field f over the disks of `disks` at the indexes of I.
RECURSIVE SumAt(_, _, _)
SumAt(disks, I, f) ==
    IF I = {} THEN 0
    ELSE LET i == CHOOSE k \in I : TRUE
         IN  disks[i][f] + SumAt(disks, I \ {i}, f)

\* C10: when no disk is a primary volume and some non-removable disk has a
\* non-zero total, the disk pair is the sum of used and the sum of total over
\* exactly the non-removable disks.
C10_SumOverNonRemovable ==
    snapshot.present =>
        LET disks == got["disk"].disks
            fixed == {i \in 1..Len(disks) : ~disks[i].is_removable}
        IN  (/\ \A i \in 1..Len(disks) : ~PrimaryVolume(disks[i])
             /\ \E i \in fixed : disks[i].total_bytes # 0)
                => DiskPair = <<SumAt(disks, fixed, "used_bytes"),
                                SumAt(disks, fixed, "total_bytes")>>

\* C10 witness: no primary volume, a removable disk with used bytes first,
\* a non-removable disk second, and the pair is the non-removable disk's.
C10_Witness ==
    /\ snapshot.present
    /\ Len(got["disk"].disks) = 2
    /\ \A i \in 1..2 : ~PrimaryVolume(got["disk"].disks[i])
    /\ got["disk"].disks[1].is_removable
    /\ got["disk"].disks[1].used_bytes > 0
    /\ ~got["disk"].disks[2].is_removable
    /\ DiskPair = <<got["disk"].disks[2].used_bytes, got["disk"].disks[2].total_bytes>>

\* C11: when no disk is a primary volume, the total over the non-removable
\* disks is zero and the list is not empty, the disk pair is the (used, total)
\* of the first disk of the list; for the empty list it is (0, 0).
C11_FirstDiskFallback ==
    snapshot.present =>
        LET disks == got["disk"].disks
            fixed == {i \in 1..Len(disks) : ~disks[i].is_removable}
        IN  /\ disks = <<>> => DiskPair = <<0, 0>>
            /\ (/\ disks # <<>>
                /\ \A i \in 1..Len(disks) : ~PrimaryVolume(disks[i])
                /\ SumAt(disks, fixed, "total_bytes") = 0)
                   => DiskPair = <<disks[1].used_bytes, disks[1].total_bytes>>

\* C11 witness: two removable disks with different figures, neither a primary
\* volume, and the pair is the first one's.
C11_Witness ==
    /\ snapshot.present
    /\ Len(got["disk"].disks) = 2
    /\ \A i \in 1..2 : /\ got["disk"].disks[i].is_removable
                        /\ ~PrimaryVolume(got["disk"].disks[i])
    /\ got["disk"].disks[1].mount_point = UsbMount
    /\ got["disk"].disks[1].total_bytes # got["disk"].disks[2].total_bytes
    /\ DiskPair = <<got["disk"].disks[1].used_bytes, got["disk"].disks[1].total_bytes>>
    /\ DiskPair[2] > 0

\* A collector run on its own has returned.
Done(u) == pc = "unit_done" /\ out.unit = u

\* The effects of the socket-count probe.
SocketProbeEvents ==
    {Ev("call", "get_socket_count"), Ev("spawn", "lscpu"), Ev("spawn", "sysctl"),
     Ev("wmi", "Win32_Processor"), Ev("spawn", "powershell")}

\* Some method of the platform's socket-count probe yields a number.
SocketProbeSucceeds ==
    \/ env.platform \in {"linux", "macos"} /\ env.socket_probe[1] # Failed
    \/ env.platform = "windows" /\ \E i \in 1..2 : env.socket_probe[i] # Failed

\* C12: in Fast mode the socket-count probe is never invoked and sockets is
\* None; in Full mode the probe is invoked, and sockets is Some when the
\* probe succeeds.
C12_SocketsSkippedInFast ==
    Done("cpu") =>
        /\ mode = "Fast" => /\ Range(events) \cap SocketProbeEvents = {}
                            /\ out.sockets = Failed
        /\ mode = "Full" => /\ Ev("call", "get_socket_count") \in Range(events)
                            /\ SocketProbeSucceeds => out.sockets # Failed

\* C12 witness: Full mode on Linux, lscpu reports 2 sockets and sockets is
\* Some(2).
C12_Witness ==
    /\ Done("cpu")
    /\ mode = "Full"
    /\ env.platform = "linux"
    /\ env.socket_probe[1] = Some(2)
    /\ Ev("spawn", "lscpu") \in Range(events)
    /\ out.sockets = Some(2)

IsSampling(ev) == ev[1] \in {"refresh_cpu_all", "sleep", "cpu_usage"}

\* C20: in Full mode cpu::collect samples, waits 200 ms, samples again and
\* reads the usage after the second sample; in Fast mode it samples once,
\* does not wait, and reads the usage of that sample.
C20_SamplingOrder ==
    Done("cpu") =>
        LET steps == SelectSeq(events, IsSampling)
        IN  /\ mode = "Full" =>
                /\ steps = <<Ev("refresh_cpu_all", 1), Ev("sleep", SleepMs),
                             Ev("refresh_cpu_all", 2), Ev("cpu_usage", 2)>>
                /\ out.usage_percent = env.usage[2]
            /\ mode = "Fast" =>
                /\ steps = <<Ev("refresh_cpu_all", 1), Ev("cpu_usage", 1)>>
                /\ out.usage_percent = env.usage[1]

\* C20 witness: Full mode, the two samples differ and the usage returned is
\* the second one's.
C20_Witness ==
    /\ Done("cpu")
    /\ mode = "Full"
    /\ env.usage[1] # env.usage[2]
    /\ out.usage_percent = env.usage[2]
    /\ Len(events) >= 4
    /\ events[2] = Ev("sleep", SleepMs)

\* C13 as stated: in Fast mode no collector spawns a subprocess or sleeps.
C13_NoSubprocessInFast ==
    (pc = "unit_done" /\ mode = "Fast") =>
        \A i \in 1..Len(events) : events[i][1] \notin {"spawn", "sleep"}

\* The effects of the probes the collectors gate on the mode.
GatedEvents ==
    SocketProbeEvents
    \cup {Ev("spawn", c) : c \in {"lspci", "xrandr", "wlr-randr", "uname",
                                  "system_profiler SPDisplaysDataType",
                                  "system_profiler SPHardwareDataType"}}
    \cup {Ev("read", "/sys/firmware/efi"), Ev("read", "/sys/class/drm"),
          Ev("wmi", "connect")}
    \cup {Ev("wmi", f) : f \in Range(WmiFacts)}
    \cup {Ev("powershell", f) : f \in Range(WmiFacts)}

\* The fields of the gated probes are absent from what collector u returned.
GatedFieldsAbsent ==
    /\ out.unit = "cpu" => out.sockets = Failed
    /\ (out.unit = "session" /\ env.platform = "windows") =>
          /\ out.last_login = None
          /\ Ev("spawn", "net") \notin Range(events)
    /\ out.unit = "platform" =>
          /\ out.boot_mode = None
          /\ out.gpus = <<>>
          /\ out.display_resolution = None
          /\ env.platform # "linux" => out.virtualization = None
          /\ env.platform = "windows" =>
                /\ out.windows_edition = None
                /\ out.shell = None
                /\ out.battery = None
                /\ out.locale = None

\* C13, amended: in Fast mode no collector performs the fixed sleep and no
\* probe that the code gates on the mode is invoked (socket count; Linux boot
\* mode, GPUs, resolution; macOS boot mode, virtualization, GPUs, resolution;
\* the Windows platform probes and last login); the fields of those probes
\* are absent.
C13_GatedProbesSkippedInFast ==
    (pc = "unit_done" /\ mode = "Fast") =>
        /\ \A i \in 1..Len(events) : events[i][1] # "sleep"
        /\ Range(events) \cap GatedEvents = {}
        /\ GatedFieldsAbsent

\* C13 witness: the Linux platform collector in Fast mode, lspci would name
\* a GPU, the GPU list is empty, and the shell was still asked its version.
C13_Witness ==
    /\ Done("platform")
    /\ mode = "Fast"
    /\ env.platform = "linux"
    /\ env.gpu_lines # Failed
    /\ lspci_names(env.gpu_lines[1]) # <<>>
    /\ out.gpus = <<>>
    /\ Ev("spawn", "shell --version") \in Range(events)

\* Every command of the platform's last-login chain failed.
LastLoginFailed ==
    \A i \in 1..Len(LastLoginCommands(env.platform)) : env.login_probe[i] = Failed

\* C15: when every method of a fact's fallback chain fails, the field is
\* None (the DNS list empty), never a placeholder: machine IP, last login,
\* socket count, DNS servers, and the WMI/PowerShell facts of the platform
\* collector.
C15_NoneWhenAllMethodsFail ==
    pc = "unit_done" =>
        /\ (out.unit = "network" /\ \A i \in 1..2 : env.ip_probe[i] = Failed)
              => out.machine_ip = None
        /\ (out.unit = "network" /\ env.resolv = Failed /\ env.resolvectl = Failed)
              => out.dns_servers = <<>>
        /\ (out.unit = "session" /\ LastLoginFailed) => out.last_login = None
        /\ (out.unit = "cpu" /\ env.platform # "other" /\ ~SocketProbeSucceeds)
              => out.sockets = Failed
        /\ (out.unit = "platform" /\ env.platform = "windows" /\ mode = "Full")
              => \A f \in {"windows_edition", "virtualization", "battery"} :
                    (~(env.wmi_conn /\ env.wmi[f]) /\ ~env.ps[f]) => out[f] = None

NoDuplicates(q) == \A i, j \in 1..Len(q) : q[i] = q[j] => i = j

\* The distinct entries of q in the order of their first appearance.
RECURSIVE FirstSeen(_, _)
FirstSeen(q, seen) ==
    IF q = <<>> THEN <<>>
    ELSE IF Head(q) \in seen THEN FirstSeen(Tail(q), seen)
    ELSE <<Head(q)>> \o FirstSeen(Tail(q), seen \cup {Head(q)})

IsPrefix(a, b) == Len(a) <= Len(b) /\ SubSeq(b, 1, Len(a)) = a

RECURSIVE Flatten(_)
Flatten(lines) == IF lines = <<>> THEN <<>> ELSE Head(lines) \o Flatten(Tail(lines))

\* The addresses of the probe output the DNS list was built from.
DnsSource ==
    IF env.resolv # Failed /\ env.resolv[1] # <<>> THEN env.resolv[1]
    ELSE IF env.resolvectl # Failed THEN Flatten(env.resolvectl[1])
    ELSE <<>>

\* The names of the probe output the Linux GPU list was built from.
GpuSource ==
    LET names == IF env.gpu_lines = Failed THEN <<>> ELSE lspci_names(env.gpu_lines[1])
    IN  IF names # <<>> THEN names ELSE env.drm

\* C17: dns_servers and gpus contain no duplicate entries and keep the order
\* in which each distinct entry first appeared in the probe output.
C17_ListsDedupedInFirstSeenOrder ==
    /\ Done("network") =>
          /\ NoDuplicates(out.dns_servers)
          /\ IsPrefix(out.dns_servers, FirstSeen(DnsSource, {}))
    /\ (Done("platform") /\ env.platform = "linux" /\ mode = "Full") =>
          /\ NoDuplicates(out.gpus)
          /\ IsPrefix(out.gpus, FirstSeen(GpuSource, {}))

\* C14: there is no timeout or cancellation: if every collector terminates,
\* collect_with_mode eventually returns; if a collector never terminates,
\* collect_with_mode never returns and no report is produced.
C14_NoTimeout ==
    /\ (\A c \in Collectors : Terminates(c)) => <>Returned
    /\ []((\E c \in Collectors : ~Terminates(c)) => (~Returned /\ ~rendered))

\* C14 witness: the first collector joined has panicked, the closure has
\* unwound, and the scope waits for the platform collector, which hangs.
C14_Witness ==
    /\ pc = "scope_end"
    /\ closurePanic = "os"
    /\ env.outcome["platform"] = "Hang"
    /\ th["platform"] = "running"
    /\ \A c \in Collectors \ {"platform"} : th[c] = "done"

\* C19: render_bar returns exactly width characters: the integer nearest to
\* clamp(percent, 0, 100) / 100 * width (a half rounds up) filled characters,
\* then only empty characters; all empty for percent <= 0, all filled for
\* percent >= 100.
C19_BarHasWidthAndRoundedFill ==
    pc = "bar_done" =>
        LET w == env.width
            c == IF env.percent < 0 THEN 0
                 ELSE IF env.percent > 100 THEN 100 ELSE env.percent
            fill == {i \in 1..Len(out) : out[i] = "#"}
            k == Cardinality(fill)
        IN  /\ Len(out) = w
            /\ fill = 1..k
            /\ \A i \in (k + 1)..Len(out) : out[i] = "."
            /\ 200 * k - 100 <= 2 * c * w
            /\ 2 * c * w < 200 * k + 100
            /\ env.percent <= 0 => k = 0
            /\ env.percent >= 100 => k = w

\* C19 witness: 50 percent of an odd width, which falls on a half and is
\* rounded up: 2 of 3 characters are filled.
C19_Witness ==
    /\ pc = "bar_done"
    /\ env.percent = 50
    /\ env.width = 3
    /\ out = <<"#", "#", ".">>

\* The labels of the rows of a generated table.
Labels == {out[i].label : i \in 1..Len(out)}

TableDone == pc = "report_done" /\ env.format = "Table"

JsonDone == pc = "report_done" /\ env.format = "Json"

\* The table label of each optional field that has a row of its own.
LabelOf ==
    [machine_ip |-> "MACHINE IP", client_ip |-> "CLIENT  IP",
     hypervisor |-> "HYPERVISOR", load_1m |-> "LOAD  1m", load_5m |-> "LOAD  5m",
     load_15m |-> "LOAD 15m", last_login |-> "LAST LOGIN", shell |-> "SHELL",
     terminal |-> "TERMINAL", locale |-> "LOCALE", battery |-> "BATTERY"]

OptionalFields == DOMAIN LabelOf \cup {"sockets"}

\* The table shows nothing for the None field f.
OmittedInTable(f) ==
    IF f = "sockets"
    THEN \A i \in 1..Len(out) : out[i].label = "CORES" => out[i].data = "n vCPU(s)"
    ELSE LabelOf[f] \notin Labels

\* C16 as stated: for every optional field that is None the table has no row
\* and the JSON has null; no placeholder stands for a missing value.
C16_NoneIsOmittedOrNull ==
    \A f \in OptionalFields :
        snapshot[f] = None =>
            /\ TableDone => OmittedInTable(f)
            /\ JsonDone => out[f] = JsonNull

\* C16, amended: the same for every optional field but client_ip in the
\* table; a None client_ip is null in the JSON and is printed in the table
\* as the row CLIENT  IP with the text "Not connected".
C16_NoneIsOmittedExceptClientIp ==
    /\ \A f \in OptionalFields :
          snapshot[f] = None =>
              /\ (TableDone /\ f # "client_ip") => OmittedInTable(f)
              /\ JsonDone => out[f] = JsonNull
    /\ (TableDone /\ snapshot.client_ip = None) =>
          Row("CLIENT  IP", "Not connected") \in Range(out)

\* C16 witness: a table of a Fast-mode SystemInfo whose optional fields are
\* all None: CLIENT  IP is the only one of their labels in it.
C16_Witness ==
    /\ TableDone
    /\ \A f \in OptionalFields : snapshot[f] = None
    /\ {LabelOf[f] : f \in DOMAIN LabelOf} \cap Labels = {"CLIENT  IP"}

\* The rows the integration test expects in every report.
ExpectedLabels ==
    {"OS", "KERNEL", "HOSTNAME", "MACHINE IP", "PROCESSOR", "CORES", "CPU FREQ",
     "VOLUME", "DISK USAGE", "MEMORY", "UPTIME"}

Loads == <<out.load_1m, out.load_5m, out.load_15m>>

\* C21: on Unix the three load averages are Some in both modes, even when
\* /proc/loadavg and getloadavg both fail; elsewhere they are Some(current
\* usage) in Full mode and None in Fast mode; everywhere they are all Some or
\* all None.
C21_LoadAveragePresence ==
    Done("cpu") =>
        /\ env.platform \in Unix => \A i \in 1..3 : Loads[i] # Failed
        /\ (env.platform \notin Unix /\ mode = "Full") =>
              \A i \in 1..3 : Loads[i] = Some(out.usage_percent)
        /\ (env.platform \notin Unix /\ mode = "Fast") =>
              \A i \in 1..3 : Loads[i] = Failed
        /\ \/ \A i \in 1..3 : Loads[i] = Failed
           \/ \A i \in 1..3 : Loads[i] # Failed

\* C21 witness: a Fast-mode collection on Unix where every load-average
\* source failed, and the three fields are Some(0).
C21_Witness ==
    /\ Done("cpu")
    /\ mode = "Fast"
    /\ env.platform \in Unix
    /\ env.loadavg.proc = Failed
    /\ env.loadavg.libc = Failed
    /\ Loads = <<Some(0), Some(0), Some(0)>>

\* The last-login lookup commands among the effects of the collection.
LookupEvents ==
    {i \in 1..Len(events) :
        events[i] \in {Ev("spawn", c) : c \in {"lastlog2", "lastlog", "last", "net"}}}

LookupSkipped == out.last_login = None /\ out.last_login_ip = None /\ LookupEvents = {}

\* C22: the last-login lookup is skipped (both fields None, no lookup command
\* run) exactly when the mode is Fast and the platform is Windows; otherwise
\* last_login is Some, and on Linux, macOS and Windows the first command of
\* the platform's lookup has been run.
C22_LastLoginGating ==
    Done("session") =>
        IF mode = "Fast" /\ env.platform = "windows"
        THEN LookupSkipped
        ELSE /\ out.last_login # None
             /\ env.platform # "other" =>
                   /\ LookupEvents # {}
                   /\ Ev("spawn", LastLoginCommands(env.platform)[1]) \in Range(events)

\* C22 witness: a Fast-mode collection on Linux that ran the lookup and has
\* the login it found.
C22_Witness ==
    /\ Done("session")
    /\ mode = "Fast"
    /\ env.platform = "linux"
    /\ Ev("spawn", "lastlog2") \in Range(events)
    /\ out.last_login = "Mon Nov 2"

\* The display-information calls among the effects of the collection.
DisplayCalls ==
    {i \in 1..Len(events) : events[i] = Ev("spawn", "system_profiler SPDisplaysDataType")}

\* C23: on macOS a Full-mode platform collection calls system_profiler
\* SPDisplaysDataType exactly once, and the GPU list and the resolution are
\* those of that one output (none of either when it gave nothing); a
\* Fast-mode collection never calls it and has no GPU and no resolution.
C23_DisplayInfoCalledOnce ==
    (Done("platform") /\ env.platform = "macos") =>
        IF mode = "Full"
        THEN /\ Cardinality(DisplayCalls) = 1
             /\ env.gpu_lines = Failed =>
                   out.gpus = <<>> /\ out.display_resolution = None
             /\ env.gpu_lines # Failed =>
                   /\ out.gpus = lspci_names(env.gpu_lines[1])
                   /\ out.display_resolution = env.resolution
        ELSE /\ DisplayCalls = {}
             /\ out.gpus = <<>>
             /\ out.display_resolution = None

\* C23 witness: a Full-mode collection on macOS whose one call gave a GPU
\* and a resolution.
C23_Witness ==
    /\ Done("platform")
    /\ env.platform = "macos"
    /\ mode = "Full"
    /\ Cardinality(DisplayCalls) = 1
    /\ out.gpus = <<"Intel UHD">>
    /\ out.display_resolution = "1920x1080"

\* The positions of effect ev in the effects of the collection.
At(ev) == {i \in 1..Len(events) : events[i] = ev}

\* C24: in a Full-mode platform collection on Windows, with a WMI connection
\* every fact's WMI query runs once, and its PowerShell command runs (once,
\* after the query) only if the query yielded nothing, and the value is the
\* query's when it yielded one; without a connection no query runs and every
\* fact's PowerShell command runs once.
C24_WmiBeforePowerShell ==
    (Done("platform") /\ env.platform = "windows" /\ mode = "Full") =>
        \A f \in Range(WmiFacts) :
            IF env.wmi_conn
            THEN /\ Cardinality(At(Ev("wmi", f))) = 1
                 /\ env.wmi[f] => (At(Ev("powershell", f)) = {} /\ out[f] = WmiValue(f))
                 /\ ~env.wmi[f] =>
                       /\ Cardinality(At(Ev("powershell", f))) = 1
                       /\ \A i \in At(Ev("wmi", f)), j \in At(Ev("powershell", f)) : i < j
            ELSE /\ At(Ev("wmi", f)) = {}
                 /\ Cardinality(At(Ev("powershell", f))) = 1

\* C24 witness: with a connection, the edition came from WMI without
\* PowerShell, and the battery from PowerShell after its WMI query failed.
C24_Witness ==
    /\ Done("platform")
    /\ env.platform = "windows"
    /\ mode = "Full"
    /\ env.wmi_conn
    /\ env.wmi["windows_edition"]
    /\ At(Ev("powershell", "windows_edition")) = {}
    /\ ~env.wmi["battery"]
    /\ At(Ev("powershell", "battery")) # {}
    /\ out.battery = WmiValue("battery")

\* C25: the dns_servers list a DNS chain returns never holds more than 5
\* entries.
C25_AtMostFiveDnsServers == pc = "dns_done" => Len(out) <= 5

\* What a column of the given width shows of text s: s and spaces up to the
\* width, or, for a longer s, its first width - 3 characters and "...".
Fitted(shown, s, width) ==
    /\ Len(shown) = width
    /\ Len(s) <= width =>
          /\ SubSeq(shown, 1, Len(s)) = s
          /\ \A i \in Len(s) + 1..width : shown[i] = " "
    /\ Len(s) > width =>
          /\ SubSeq(shown, 1, width - 3) = SubSeq(s, 1, width - 3)
          /\ SubSeq(shown, width - 2, width) = <<".", ".", ".">>

\* C26: every line of the table has label_width + data_width + 7
\* characters; a row shows each text padded to its column or truncated to it
\* with a final "...", and a centered line shows its text with spaces around
\* it or truncated to the inner width with a final "...".
C26_LinesHaveTableWidth ==
    pc = "table_done" =>
        LET lw == env.widths[1]
            dw == env.widths[2]
        IN  /\ Len(out) = lw + dw + 7
            /\ env.line = "row" =>
                  /\ Fitted(SubSeq(out, 3, lw + 2), env.label, lw)
                  /\ Fitted(SubSeq(out, lw + 6, lw + dw + 5), env.value, dw)
            /\ env.line = "centered" =>
                  LET inner == SubSeq(out, 2, Len(out) - 1)
                      n == Len(env.text)
                  IN  IF n > lw + dw + 5
                      THEN Fitted(inner, env.text, lw + dw + 5)
                      ELSE \E k \in 0..Len(inner) :
                              /\ SubSeq(inner, k + 1, k + n) = env.text
                              /\ \A i \in 1..Len(inner) :
                                    (i <= k \/ i > k + n) => inner[i] = " "

\* C26 witness: a row of the report's table whose label is padded and whose
\* value, longer than the data column, is truncated with "...".
C26_Witness ==
    /\ pc = "table_done"
    /\ env.line = "row"
    /\ env.widths = <<LabelWidth, MAX_DATA_WIDTH>>
    /\ Len(env.label) < LabelWidth
    /\ Len(env.value) > MAX_DATA_WIDTH
    /\ Len(out) = LabelWidth + MAX_DATA_WIDTH + 7
    /\ out[Len(out) - 2] = "."

\* The positions of the lines of a content that hold marker m.
MarkerLines(content, m) ==
    {i \in 1..Len(content.lines) : Contains(content.lines[i], m)}

RECURSIVE NonBlank(_)
NonBlank(lines) ==
    IF lines = <<>> THEN <<>>
    ELSE (IF IsBlank(Head(lines)) THEN <<>> ELSE <<Head(lines)>>)
         \o NonBlank(Tail(lines))

\* The lines outside every pair of a start marker and its matching end
\* marker, the next one after it.
RECURSIVE OutsidePairs(_)
OutsidePairs(lines) ==
    IF lines = <<>> THEN <<>>
    ELSE IF Contains(Head(lines), MARKER_START)
            /\ \E k \in 2..Len(lines) : Contains(lines[k], MARKER_END)
    THEN LET k == CHOOSE k \in 2..Len(lines) :
                      /\ Contains(lines[k], MARKER_END)
                      /\ \A j \in 2..k - 1 : ~Contains(lines[j], MARKER_END)
         IN  OutsidePairs(SubSeq(lines, k + 1, Len(lines)))
    ELSE <<Head(lines)>> \o OutsidePairs(Tail(lines))

\* C28: uninstall leaves a profile without the start marker unwritten, and
\* what it writes otherwise keeps, in their order, the non-blank lines
\* outside every start/end pair and no other.
C28_UninstallKeepsOutsideLines ==
    pc = "uninstalled" =>
        LET before == events[1].before
        IN  IF MarkerLines(before, MARKER_START) = {}
            THEN ~events[1].written /\ out = before
            ELSE NonBlank(out.lines) = NonBlank(OutsidePairs(before.lines))

\* The option prompt_uninstall_option is to return on the input of the run:
\* that of the first line that trims to 0, 1 or 2, or Cancel when the read
\* error comes first.
RECURSIVE FirstChoice(_)
FirstChoice(input) ==
    IF input = <<>> THEN None
    ELSE IF choice_of(Head(input)) # None THEN choice_of(Head(input))
    ELSE FirstChoice(Tail(input))

\* C29: prompt_uninstall_option eventually returns on every input stream,
\* with the option of the first valid line, or Cancel on a read error; it
\* returns at the end of the input too.
C29_PromptReturns ==
    /\ <>(pc # "prompt")
    /\ [](pc = "chosen" =>
            out.option = IF FirstChoice(env.input) # None
                         THEN FirstChoice(env.input) ELSE "Cancel")

\* C30: profile and binary are touched by the complete uninstall only after
\* option 2 and a yes to the confirmation; Cancel and a declined
\* confirmation leave both as they are; option 1 never removes the binary.
C30_CompleteUninstallNeedsConfirmation ==
    /\ (out.option = "Complete" /\ (out.profile_written \/ out.binary_removed)) =>
          out.confirmed = "yes"
    /\ (out.option = "Cancel" \/ out.confirmed = "no") =>
          ~out.profile_written /\ ~out.binary_removed
    /\ out.option = "ProfileOnly" => ~out.binary_removed

====
